---- MODULE Spec2Model ----
(***************************************************************************)
(* Observation intake and threat correlation of the WiFi intrusion         *)
(* detector backend: the Network collection (models/Network), the routes   *)
(* of routes/api (POST /scan, PATCH /networks/:id/status, GET /networks,   *)
(* GET /stats, GET /threats) and services/threatDetection (ThreatDetector).*)
(*                                                                         *)
(* JavaScript strings are sequences of one-character strings, so that      *)
(* toUpperCase, substring, startsWith and the regular expressions are      *)
(* computed code unit by code unit.  A code unit outside ASCII is written   *)
(* by its name: "U+00DF" is the one code unit U+00DF; a character outside  *)
(* the basic plane is its two surrogates, "U+D801", "U+DC28".              *)
(* A JavaScript value that may be absent or of another type is a tagged    *)
(* record (Undef, Null, Str, Num).                                         *)
(***************************************************************************)
EXTENDS Integers, Sequences, FiniteSets, TLC

----------------------------------------------------------------------------
(* JavaScript values *)

Undef == [t |-> "undefined"]
Null == [t |-> "null"]
Str(s) == [t |-> "string", v |-> s]
Num(n) == [t |-> "number", n |-> n]

\* faulty variant of Falsy: only an absent value counts (x === undefined || x === null)
FalsyAbsentOnly(x) == x.t \in {"undefined", "null"}

\* !x for the values a report field can hold
Falsy(x) ==
  \/ x.t \in {"undefined", "null"}
  \/ (x.t = "string" /\ x.v = <<>>)
  \/ (x.t = "number" /\ x.n = 0)

\* The case mapping of Unicode 17 (UnicodeData and SpecialCasing), which
\* String.prototype.toUpperCase follows whatever the locale.

\* the code units whose uppercase form is one other code unit, in the order
\* of their codes
LowerChars ==
  <<
    "a","b","c","d","e","f","g","h","i","j","k","l","m","n","o","p","q","r","s","t","u","v","w","x","y","z","U+00B5","U+00E0","U+00E1","U+00E2","U+00E3","U+00E4","U+00E5","U+00E6","U+00E7","U+00E8","U+00E9","U+00EA","U+00EB","U+00EC","U+00ED","U+00EE","U+00EF","U+00F0","U+00F1","U+00F2","U+00F3","U+00F4","U+00F5","U+00F6","U+00F8","U+00F9","U+00FA","U+00FB","U+00FC","U+00FD","U+00FE","U+00FF","U+0101","U+0103","U+0105","U+0107","U+0109","U+010B","U+010D","U+010F","U+0111","U+0113","U+0115","U+0117","U+0119","U+011B","U+011D","U+011F","U+0121","U+0123","U+0125","U+0127","U+0129","U+012B","U+012D","U+012F","U+0131","U+0133","U+0135","U+0137","U+013A","U+013C","U+013E","U+0140","U+0142","U+0144","U+0146","U+0148","U+014B","U+014D","U+014F","U+0151","U+0153","U+0155","U+0157","U+0159","U+015B","U+015D","U+015F","U+0161","U+0163","U+0165","U+0167","U+0169","U+016B","U+016D","U+016F","U+0171","U+0173","U+0175","U+0177","U+017A","U+017C","U+017E","U+017F","U+0180","U+0183","U+0185","U+0188","U+018C","U+0192","U+0195","U+0199","U+019A","U+019B","U+019E","U+01A1","U+01A3","U+01A5","U+01A8","U+01AD","U+01B0","U+01B4","U+01B6","U+01B9","U+01BD","U+01BF","U+01C5","U+01C6","U+01C8","U+01C9","U+01CB","U+01CC","U+01CE","U+01D0","U+01D2","U+01D4","U+01D6","U+01D8","U+01DA","U+01DC","U+01DD","U+01DF","U+01E1","U+01E3","U+01E5","U+01E7","U+01E9","U+01EB","U+01ED","U+01EF","U+01F2","U+01F3","U+01F5","U+01F9","U+01FB","U+01FD","U+01FF","U+0201","U+0203","U+0205","U+0207","U+0209","U+020B","U+020D","U+020F","U+0211","U+0213","U+0215","U+0217","U+0219","U+021B","U+021D","U+021F","U+0223","U+0225","U+0227","U+0229","U+022B","U+022D","U+022F","U+0231","U+0233","U+023C","U+023F","U+0240","U+0242","U+0247","U+0249","U+024B","U+024D","U+024F","U+0250","U+0251","U+0252","U+0253","U+0254","U+0256","U+0257","U+0259","U+025B","U+025C","U+0260","U+0261","U+0263","U+0264","U+0265","U+0266","U+0268","U+0269","U+026A","U+026B","U+026C","U+026F","U+0271","U+0272","U+0275","U+027D","U+0280","U+0282","U+0283","U+0287","U+0288","U+0289","U+028A","U+028B","U+028C","U+0292","U+029D","U+029E","U+0345","U+0371","U+0373","U+0377","U+037B","U+037C","U+037D","U+03AC","U+03AD","U+03AE","U+03AF","U+03B1","U+03B2","U+03B3","U+03B4","U+03B5","U+03B6","U+03B7","U+03B8","U+03B9","U+03BA","U+03BB","U+03BC","U+03BD","U+03BE","U+03BF","U+03C0","U+03C1","U+03C2","U+03C3","U+03C4","U+03C5","U+03C6","U+03C7","U+03C8","U+03C9","U+03CA","U+03CB","U+03CC","U+03CD","U+03CE","U+03D0","U+03D1","U+03D5","U+03D6","U+03D7","U+03D9","U+03DB","U+03DD","U+03DF","U+03E1","U+03E3","U+03E5","U+03E7","U+03E9","U+03EB","U+03ED","U+03EF","U+03F0","U+03F1","U+03F2","U+03F3","U+03F5","U+03F8","U+03FB","U+0430","U+0431","U+0432","U+0433","U+0434","U+0435","U+0436","U+0437","U+0438","U+0439","U+043A","U+043B","U+043C","U+043D","U+043E","U+043F","U+0440","U+0441","U+0442","U+0443","U+0444","U+0445","U+0446","U+0447","U+0448","U+0449","U+044A","U+044B","U+044C","U+044D","U+044E","U+044F","U+0450","U+0451","U+0452","U+0453","U+0454","U+0455","U+0456","U+0457","U+0458","U+0459","U+045A","U+045B","U+045C","U+045D","U+045E","U+045F","U+0461","U+0463","U+0465","U+0467","U+0469","U+046B","U+046D","U+046F","U+0471","U+0473","U+0475","U+0477","U+0479","U+047B","U+047D","U+047F","U+0481","U+048B","U+048D","U+048F","U+0491","U+0493","U+0495","U+0497","U+0499","U+049B","U+049D","U+049F","U+04A1","U+04A3","U+04A5","U+04A7","U+04A9","U+04AB","U+04AD","U+04AF","U+04B1","U+04B3","U+04B5","U+04B7","U+04B9","U+04BB","U+04BD","U+04BF","U+04C2","U+04C4","U+04C6","U+04C8","U+04CA","U+04CC","U+04CE","U+04CF","U+04D1","U+04D3","U+04D5","U+04D7","U+04D9","U+04DB","U+04DD","U+04DF","U+04E1","U+04E3","U+04E5","U+04E7","U+04E9","U+04EB","U+04ED","U+04EF","U+04F1","U+04F3","U+04F5","U+04F7","U+04F9","U+04FB","U+04FD","U+04FF","U+0501","U+0503","U+0505","U+0507","U+0509","U+050B","U+050D","U+050F","U+0511","U+0513","U+0515","U+0517","U+0519","U+051B","U+051D","U+051F","U+0521","U+0523","U+0525","U+0527","U+0529","U+052B","U+052D","U+052F","U+0561","U+0562","U+0563","U+0564","U+0565","U+0566","U+0567","U+0568","U+0569","U+056A","U+056B","U+056C","U+056D","U+056E","U+056F","U+0570","U+0571","U+0572","U+0573","U+0574","U+0575","U+0576","U+0577","U+0578","U+0579","U+057A","U+057B","U+057C","U+057D","U+057E","U+057F","U+0580","U+0581","U+0582","U+0583","U+0584","U+0585","U+0586","U+10D0","U+10D1","U+10D2","U+10D3","U+10D4","U+10D5","U+10D6","U+10D7","U+10D8","U+10D9","U+10DA","U+10DB","U+10DC","U+10DD","U+10DE","U+10DF","U+10E0","U+10E1","U+10E2","U+10E3","U+10E4","U+10E5","U+10E6","U+10E7","U+10E8","U+10E9","U+10EA","U+10EB","U+10EC","U+10ED","U+10EE","U+10EF","U+10F0","U+10F1","U+10F2","U+10F3","U+10F4","U+10F5","U+10F6","U+10F7","U+10F8","U+10F9","U+10FA","U+10FD","U+10FE","U+10FF","U+13F8","U+13F9","U+13FA","U+13FB","U+13FC","U+13FD","U+1C80","U+1C81","U+1C82","U+1C83","U+1C84","U+1C85","U+1C86","U+1C87","U+1C88","U+1C8A","U+1D79","U+1D7D","U+1D8E","U+1E01","U+1E03","U+1E05","U+1E07","U+1E09","U+1E0B","U+1E0D","U+1E0F","U+1E11","U+1E13","U+1E15","U+1E17","U+1E19","U+1E1B","U+1E1D","U+1E1F","U+1E21","U+1E23","U+1E25","U+1E27","U+1E29","U+1E2B","U+1E2D","U+1E2F","U+1E31","U+1E33","U+1E35","U+1E37","U+1E39","U+1E3B","U+1E3D","U+1E3F","U+1E41","U+1E43","U+1E45","U+1E47","U+1E49","U+1E4B","U+1E4D","U+1E4F","U+1E51","U+1E53","U+1E55","U+1E57","U+1E59","U+1E5B","U+1E5D","U+1E5F","U+1E61","U+1E63","U+1E65","U+1E67","U+1E69","U+1E6B","U+1E6D","U+1E6F","U+1E71","U+1E73","U+1E75","U+1E77","U+1E79","U+1E7B","U+1E7D","U+1E7F","U+1E81","U+1E83","U+1E85","U+1E87","U+1E89","U+1E8B","U+1E8D","U+1E8F","U+1E91","U+1E93","U+1E95","U+1E9B","U+1EA1","U+1EA3","U+1EA5","U+1EA7","U+1EA9","U+1EAB","U+1EAD","U+1EAF","U+1EB1","U+1EB3","U+1EB5","U+1EB7","U+1EB9","U+1EBB","U+1EBD","U+1EBF","U+1EC1","U+1EC3","U+1EC5","U+1EC7","U+1EC9","U+1ECB","U+1ECD","U+1ECF","U+1ED1","U+1ED3","U+1ED5","U+1ED7","U+1ED9","U+1EDB","U+1EDD","U+1EDF","U+1EE1","U+1EE3","U+1EE5","U+1EE7","U+1EE9","U+1EEB","U+1EED","U+1EEF","U+1EF1","U+1EF3","U+1EF5","U+1EF7","U+1EF9","U+1EFB","U+1EFD","U+1EFF","U+1F00","U+1F01","U+1F02","U+1F03","U+1F04","U+1F05","U+1F06","U+1F07","U+1F10","U+1F11","U+1F12","U+1F13","U+1F14","U+1F15","U+1F20","U+1F21","U+1F22","U+1F23","U+1F24","U+1F25","U+1F26","U+1F27","U+1F30","U+1F31","U+1F32","U+1F33","U+1F34","U+1F35","U+1F36","U+1F37","U+1F40","U+1F41","U+1F42","U+1F43","U+1F44","U+1F45","U+1F51","U+1F53","U+1F55","U+1F57","U+1F60","U+1F61","U+1F62","U+1F63","U+1F64","U+1F65","U+1F66","U+1F67","U+1F70","U+1F71","U+1F72","U+1F73","U+1F74","U+1F75","U+1F76","U+1F77","U+1F78","U+1F79","U+1F7A","U+1F7B","U+1F7C","U+1F7D","U+1FB0","U+1FB1","U+1FBE","U+1FD0","U+1FD1","U+1FE0","U+1FE1","U+1FE5","U+214E","U+2170","U+2171","U+2172","U+2173","U+2174","U+2175","U+2176","U+2177","U+2178","U+2179","U+217A","U+217B","U+217C","U+217D","U+217E","U+217F","U+2184","U+24D0","U+24D1","U+24D2","U+24D3","U+24D4","U+24D5","U+24D6","U+24D7","U+24D8","U+24D9","U+24DA","U+24DB","U+24DC","U+24DD","U+24DE","U+24DF","U+24E0","U+24E1","U+24E2","U+24E3","U+24E4","U+24E5","U+24E6","U+24E7","U+24E8","U+24E9","U+2C30","U+2C31","U+2C32","U+2C33","U+2C34","U+2C35","U+2C36","U+2C37","U+2C38","U+2C39","U+2C3A","U+2C3B","U+2C3C","U+2C3D","U+2C3E","U+2C3F","U+2C40","U+2C41","U+2C42","U+2C43","U+2C44","U+2C45","U+2C46","U+2C47","U+2C48","U+2C49","U+2C4A","U+2C4B","U+2C4C","U+2C4D","U+2C4E","U+2C4F","U+2C50","U+2C51","U+2C52","U+2C53","U+2C54","U+2C55","U+2C56","U+2C57","U+2C58","U+2C59","U+2C5A","U+2C5B","U+2C5C","U+2C5D","U+2C5E","U+2C5F","U+2C61","U+2C65","U+2C66","U+2C68","U+2C6A","U+2C6C","U+2C73","U+2C76","U+2C81","U+2C83","U+2C85","U+2C87","U+2C89","U+2C8B","U+2C8D","U+2C8F","U+2C91","U+2C93","U+2C95","U+2C97","U+2C99","U+2C9B","U+2C9D","U+2C9F","U+2CA1","U+2CA3","U+2CA5","U+2CA7","U+2CA9","U+2CAB","U+2CAD","U+2CAF","U+2CB1","U+2CB3","U+2CB5","U+2CB7","U+2CB9","U+2CBB","U+2CBD","U+2CBF","U+2CC1","U+2CC3","U+2CC5","U+2CC7","U+2CC9","U+2CCB","U+2CCD","U+2CCF","U+2CD1","U+2CD3","U+2CD5","U+2CD7","U+2CD9","U+2CDB","U+2CDD","U+2CDF","U+2CE1","U+2CE3","U+2CEC","U+2CEE","U+2CF3","U+2D00","U+2D01","U+2D02","U+2D03","U+2D04","U+2D05","U+2D06","U+2D07","U+2D08","U+2D09","U+2D0A","U+2D0B","U+2D0C","U+2D0D","U+2D0E","U+2D0F","U+2D10","U+2D11","U+2D12","U+2D13","U+2D14","U+2D15","U+2D16","U+2D17","U+2D18","U+2D19","U+2D1A","U+2D1B","U+2D1C","U+2D1D","U+2D1E","U+2D1F","U+2D20","U+2D21","U+2D22","U+2D23","U+2D24","U+2D25","U+2D27","U+2D2D","U+A641","U+A643","U+A645","U+A647","U+A649","U+A64B","U+A64D","U+A64F","U+A651","U+A653","U+A655","U+A657","U+A659","U+A65B","U+A65D","U+A65F","U+A661","U+A663","U+A665","U+A667","U+A669","U+A66B","U+A66D","U+A681","U+A683","U+A685","U+A687","U+A689","U+A68B","U+A68D","U+A68F","U+A691","U+A693","U+A695","U+A697","U+A699","U+A69B","U+A723","U+A725","U+A727","U+A729","U+A72B","U+A72D","U+A72F","U+A733","U+A735","U+A737","U+A739","U+A73B","U+A73D","U+A73F","U+A741","U+A743","U+A745","U+A747","U+A749","U+A74B","U+A74D","U+A74F","U+A751","U+A753","U+A755","U+A757","U+A759","U+A75B","U+A75D","U+A75F","U+A761","U+A763","U+A765","U+A767","U+A769","U+A76B","U+A76D","U+A76F","U+A77A","U+A77C","U+A77F","U+A781","U+A783","U+A785","U+A787","U+A78C","U+A791","U+A793","U+A794","U+A797","U+A799","U+A79B","U+A79D","U+A79F","U+A7A1","U+A7A3","U+A7A5","U+A7A7","U+A7A9","U+A7B5","U+A7B7","U+A7B9","U+A7BB","U+A7BD","U+A7BF","U+A7C1","U+A7C3","U+A7C8","U+A7CA","U+A7CD","U+A7CF","U+A7D1","U+A7D3","U+A7D5","U+A7D7","U+A7D9","U+A7DB","U+A7F6","U+AB53","U+AB70","U+AB71","U+AB72","U+AB73","U+AB74","U+AB75","U+AB76","U+AB77","U+AB78","U+AB79","U+AB7A","U+AB7B","U+AB7C","U+AB7D","U+AB7E","U+AB7F","U+AB80","U+AB81","U+AB82","U+AB83","U+AB84","U+AB85","U+AB86","U+AB87","U+AB88","U+AB89","U+AB8A","U+AB8B","U+AB8C","U+AB8D","U+AB8E","U+AB8F","U+AB90","U+AB91","U+AB92","U+AB93","U+AB94","U+AB95","U+AB96","U+AB97","U+AB98","U+AB99","U+AB9A","U+AB9B","U+AB9C","U+AB9D","U+AB9E","U+AB9F","U+ABA0","U+ABA1","U+ABA2","U+ABA3","U+ABA4","U+ABA5","U+ABA6","U+ABA7","U+ABA8","U+ABA9","U+ABAA","U+ABAB","U+ABAC","U+ABAD","U+ABAE","U+ABAF","U+ABB0","U+ABB1","U+ABB2","U+ABB3","U+ABB4","U+ABB5","U+ABB6","U+ABB7","U+ABB8","U+ABB9","U+ABBA","U+ABBB","U+ABBC","U+ABBD","U+ABBE","U+ABBF","U+FF41","U+FF42","U+FF43","U+FF44","U+FF45","U+FF46","U+FF47","U+FF48","U+FF49","U+FF4A","U+FF4B","U+FF4C","U+FF4D","U+FF4E","U+FF4F","U+FF50","U+FF51","U+FF52","U+FF53","U+FF54","U+FF55","U+FF56","U+FF57","U+FF58","U+FF59","U+FF5A"
  >>

\* the uppercase form of each of them, in the same order
UpperChars ==
  <<
    "A","B","C","D","E","F","G","H","I","J","K","L","M","N","O","P","Q","R","S","T","U","V","W","X","Y","Z","U+039C","U+00C0","U+00C1","U+00C2","U+00C3","U+00C4","U+00C5","U+00C6","U+00C7","U+00C8","U+00C9","U+00CA","U+00CB","U+00CC","U+00CD","U+00CE","U+00CF","U+00D0","U+00D1","U+00D2","U+00D3","U+00D4","U+00D5","U+00D6","U+00D8","U+00D9","U+00DA","U+00DB","U+00DC","U+00DD","U+00DE","U+0178","U+0100","U+0102","U+0104","U+0106","U+0108","U+010A","U+010C","U+010E","U+0110","U+0112","U+0114","U+0116","U+0118","U+011A","U+011C","U+011E","U+0120","U+0122","U+0124","U+0126","U+0128","U+012A","U+012C","U+012E","I","U+0132","U+0134","U+0136","U+0139","U+013B","U+013D","U+013F","U+0141","U+0143","U+0145","U+0147","U+014A","U+014C","U+014E","U+0150","U+0152","U+0154","U+0156","U+0158","U+015A","U+015C","U+015E","U+0160","U+0162","U+0164","U+0166","U+0168","U+016A","U+016C","U+016E","U+0170","U+0172","U+0174","U+0176","U+0179","U+017B","U+017D","S","U+0243","U+0182","U+0184","U+0187","U+018B","U+0191","U+01F6","U+0198","U+023D","U+A7DC","U+0220","U+01A0","U+01A2","U+01A4","U+01A7","U+01AC","U+01AF","U+01B3","U+01B5","U+01B8","U+01BC","U+01F7","U+01C4","U+01C4","U+01C7","U+01C7","U+01CA","U+01CA","U+01CD","U+01CF","U+01D1","U+01D3","U+01D5","U+01D7","U+01D9","U+01DB","U+018E","U+01DE","U+01E0","U+01E2","U+01E4","U+01E6","U+01E8","U+01EA","U+01EC","U+01EE","U+01F1","U+01F1","U+01F4","U+01F8","U+01FA","U+01FC","U+01FE","U+0200","U+0202","U+0204","U+0206","U+0208","U+020A","U+020C","U+020E","U+0210","U+0212","U+0214","U+0216","U+0218","U+021A","U+021C","U+021E","U+0222","U+0224","U+0226","U+0228","U+022A","U+022C","U+022E","U+0230","U+0232","U+023B","U+2C7E","U+2C7F","U+0241","U+0246","U+0248","U+024A","U+024C","U+024E","U+2C6F","U+2C6D","U+2C70","U+0181","U+0186","U+0189","U+018A","U+018F","U+0190","U+A7AB","U+0193","U+A7AC","U+0194","U+A7CB","U+A78D","U+A7AA","U+0197","U+0196","U+A7AE","U+2C62","U+A7AD","U+019C","U+2C6E","U+019D","U+019F","U+2C64","U+01A6","U+A7C5","U+01A9","U+A7B1","U+01AE","U+0244","U+01B1","U+01B2","U+0245","U+01B7","U+A7B2","U+A7B0","U+0399","U+0370","U+0372","U+0376","U+03FD","U+03FE","U+03FF","U+0386","U+0388","U+0389","U+038A","U+0391","U+0392","U+0393","U+0394","U+0395","U+0396","U+0397","U+0398","U+0399","U+039A","U+039B","U+039C","U+039D","U+039E","U+039F","U+03A0","U+03A1","U+03A3","U+03A3","U+03A4","U+03A5","U+03A6","U+03A7","U+03A8","U+03A9","U+03AA","U+03AB","U+038C","U+038E","U+038F","U+0392","U+0398","U+03A6","U+03A0","U+03CF","U+03D8","U+03DA","U+03DC","U+03DE","U+03E0","U+03E2","U+03E4","U+03E6","U+03E8","U+03EA","U+03EC","U+03EE","U+039A","U+03A1","U+03F9","U+037F","U+0395","U+03F7","U+03FA","U+0410","U+0411","U+0412","U+0413","U+0414","U+0415","U+0416","U+0417","U+0418","U+0419","U+041A","U+041B","U+041C","U+041D","U+041E","U+041F","U+0420","U+0421","U+0422","U+0423","U+0424","U+0425","U+0426","U+0427","U+0428","U+0429","U+042A","U+042B","U+042C","U+042D","U+042E","U+042F","U+0400","U+0401","U+0402","U+0403","U+0404","U+0405","U+0406","U+0407","U+0408","U+0409","U+040A","U+040B","U+040C","U+040D","U+040E","U+040F","U+0460","U+0462","U+0464","U+0466","U+0468","U+046A","U+046C","U+046E","U+0470","U+0472","U+0474","U+0476","U+0478","U+047A","U+047C","U+047E","U+0480","U+048A","U+048C","U+048E","U+0490","U+0492","U+0494","U+0496","U+0498","U+049A","U+049C","U+049E","U+04A0","U+04A2","U+04A4","U+04A6","U+04A8","U+04AA","U+04AC","U+04AE","U+04B0","U+04B2","U+04B4","U+04B6","U+04B8","U+04BA","U+04BC","U+04BE","U+04C1","U+04C3","U+04C5","U+04C7","U+04C9","U+04CB","U+04CD","U+04C0","U+04D0","U+04D2","U+04D4","U+04D6","U+04D8","U+04DA","U+04DC","U+04DE","U+04E0","U+04E2","U+04E4","U+04E6","U+04E8","U+04EA","U+04EC","U+04EE","U+04F0","U+04F2","U+04F4","U+04F6","U+04F8","U+04FA","U+04FC","U+04FE","U+0500","U+0502","U+0504","U+0506","U+0508","U+050A","U+050C","U+050E","U+0510","U+0512","U+0514","U+0516","U+0518","U+051A","U+051C","U+051E","U+0520","U+0522","U+0524","U+0526","U+0528","U+052A","U+052C","U+052E","U+0531","U+0532","U+0533","U+0534","U+0535","U+0536","U+0537","U+0538","U+0539","U+053A","U+053B","U+053C","U+053D","U+053E","U+053F","U+0540","U+0541","U+0542","U+0543","U+0544","U+0545","U+0546","U+0547","U+0548","U+0549","U+054A","U+054B","U+054C","U+054D","U+054E","U+054F","U+0550","U+0551","U+0552","U+0553","U+0554","U+0555","U+0556","U+1C90","U+1C91","U+1C92","U+1C93","U+1C94","U+1C95","U+1C96","U+1C97","U+1C98","U+1C99","U+1C9A","U+1C9B","U+1C9C","U+1C9D","U+1C9E","U+1C9F","U+1CA0","U+1CA1","U+1CA2","U+1CA3","U+1CA4","U+1CA5","U+1CA6","U+1CA7","U+1CA8","U+1CA9","U+1CAA","U+1CAB","U+1CAC","U+1CAD","U+1CAE","U+1CAF","U+1CB0","U+1CB1","U+1CB2","U+1CB3","U+1CB4","U+1CB5","U+1CB6","U+1CB7","U+1CB8","U+1CB9","U+1CBA","U+1CBD","U+1CBE","U+1CBF","U+13F0","U+13F1","U+13F2","U+13F3","U+13F4","U+13F5","U+0412","U+0414","U+041E","U+0421","U+0422","U+0422","U+042A","U+0462","U+A64A","U+1C89","U+A77D","U+2C63","U+A7C6","U+1E00","U+1E02","U+1E04","U+1E06","U+1E08","U+1E0A","U+1E0C","U+1E0E","U+1E10","U+1E12","U+1E14","U+1E16","U+1E18","U+1E1A","U+1E1C","U+1E1E","U+1E20","U+1E22","U+1E24","U+1E26","U+1E28","U+1E2A","U+1E2C","U+1E2E","U+1E30","U+1E32","U+1E34","U+1E36","U+1E38","U+1E3A","U+1E3C","U+1E3E","U+1E40","U+1E42","U+1E44","U+1E46","U+1E48","U+1E4A","U+1E4C","U+1E4E","U+1E50","U+1E52","U+1E54","U+1E56","U+1E58","U+1E5A","U+1E5C","U+1E5E","U+1E60","U+1E62","U+1E64","U+1E66","U+1E68","U+1E6A","U+1E6C","U+1E6E","U+1E70","U+1E72","U+1E74","U+1E76","U+1E78","U+1E7A","U+1E7C","U+1E7E","U+1E80","U+1E82","U+1E84","U+1E86","U+1E88","U+1E8A","U+1E8C","U+1E8E","U+1E90","U+1E92","U+1E94","U+1E60","U+1EA0","U+1EA2","U+1EA4","U+1EA6","U+1EA8","U+1EAA","U+1EAC","U+1EAE","U+1EB0","U+1EB2","U+1EB4","U+1EB6","U+1EB8","U+1EBA","U+1EBC","U+1EBE","U+1EC0","U+1EC2","U+1EC4","U+1EC6","U+1EC8","U+1ECA","U+1ECC","U+1ECE","U+1ED0","U+1ED2","U+1ED4","U+1ED6","U+1ED8","U+1EDA","U+1EDC","U+1EDE","U+1EE0","U+1EE2","U+1EE4","U+1EE6","U+1EE8","U+1EEA","U+1EEC","U+1EEE","U+1EF0","U+1EF2","U+1EF4","U+1EF6","U+1EF8","U+1EFA","U+1EFC","U+1EFE","U+1F08","U+1F09","U+1F0A","U+1F0B","U+1F0C","U+1F0D","U+1F0E","U+1F0F","U+1F18","U+1F19","U+1F1A","U+1F1B","U+1F1C","U+1F1D","U+1F28","U+1F29","U+1F2A","U+1F2B","U+1F2C","U+1F2D","U+1F2E","U+1F2F","U+1F38","U+1F39","U+1F3A","U+1F3B","U+1F3C","U+1F3D","U+1F3E","U+1F3F","U+1F48","U+1F49","U+1F4A","U+1F4B","U+1F4C","U+1F4D","U+1F59","U+1F5B","U+1F5D","U+1F5F","U+1F68","U+1F69","U+1F6A","U+1F6B","U+1F6C","U+1F6D","U+1F6E","U+1F6F","U+1FBA","U+1FBB","U+1FC8","U+1FC9","U+1FCA","U+1FCB","U+1FDA","U+1FDB","U+1FF8","U+1FF9","U+1FEA","U+1FEB","U+1FFA","U+1FFB","U+1FB8","U+1FB9","U+0399","U+1FD8","U+1FD9","U+1FE8","U+1FE9","U+1FEC","U+2132","U+2160","U+2161","U+2162","U+2163","U+2164","U+2165","U+2166","U+2167","U+2168","U+2169","U+216A","U+216B","U+216C","U+216D","U+216E","U+216F","U+2183","U+24B6","U+24B7","U+24B8","U+24B9","U+24BA","U+24BB","U+24BC","U+24BD","U+24BE","U+24BF","U+24C0","U+24C1","U+24C2","U+24C3","U+24C4","U+24C5","U+24C6","U+24C7","U+24C8","U+24C9","U+24CA","U+24CB","U+24CC","U+24CD","U+24CE","U+24CF","U+2C00","U+2C01","U+2C02","U+2C03","U+2C04","U+2C05","U+2C06","U+2C07","U+2C08","U+2C09","U+2C0A","U+2C0B","U+2C0C","U+2C0D","U+2C0E","U+2C0F","U+2C10","U+2C11","U+2C12","U+2C13","U+2C14","U+2C15","U+2C16","U+2C17","U+2C18","U+2C19","U+2C1A","U+2C1B","U+2C1C","U+2C1D","U+2C1E","U+2C1F","U+2C20","U+2C21","U+2C22","U+2C23","U+2C24","U+2C25","U+2C26","U+2C27","U+2C28","U+2C29","U+2C2A","U+2C2B","U+2C2C","U+2C2D","U+2C2E","U+2C2F","U+2C60","U+023A","U+023E","U+2C67","U+2C69","U+2C6B","U+2C72","U+2C75","U+2C80","U+2C82","U+2C84","U+2C86","U+2C88","U+2C8A","U+2C8C","U+2C8E","U+2C90","U+2C92","U+2C94","U+2C96","U+2C98","U+2C9A","U+2C9C","U+2C9E","U+2CA0","U+2CA2","U+2CA4","U+2CA6","U+2CA8","U+2CAA","U+2CAC","U+2CAE","U+2CB0","U+2CB2","U+2CB4","U+2CB6","U+2CB8","U+2CBA","U+2CBC","U+2CBE","U+2CC0","U+2CC2","U+2CC4","U+2CC6","U+2CC8","U+2CCA","U+2CCC","U+2CCE","U+2CD0","U+2CD2","U+2CD4","U+2CD6","U+2CD8","U+2CDA","U+2CDC","U+2CDE","U+2CE0","U+2CE2","U+2CEB","U+2CED","U+2CF2","U+10A0","U+10A1","U+10A2","U+10A3","U+10A4","U+10A5","U+10A6","U+10A7","U+10A8","U+10A9","U+10AA","U+10AB","U+10AC","U+10AD","U+10AE","U+10AF","U+10B0","U+10B1","U+10B2","U+10B3","U+10B4","U+10B5","U+10B6","U+10B7","U+10B8","U+10B9","U+10BA","U+10BB","U+10BC","U+10BD","U+10BE","U+10BF","U+10C0","U+10C1","U+10C2","U+10C3","U+10C4","U+10C5","U+10C7","U+10CD","U+A640","U+A642","U+A644","U+A646","U+A648","U+A64A","U+A64C","U+A64E","U+A650","U+A652","U+A654","U+A656","U+A658","U+A65A","U+A65C","U+A65E","U+A660","U+A662","U+A664","U+A666","U+A668","U+A66A","U+A66C","U+A680","U+A682","U+A684","U+A686","U+A688","U+A68A","U+A68C","U+A68E","U+A690","U+A692","U+A694","U+A696","U+A698","U+A69A","U+A722","U+A724","U+A726","U+A728","U+A72A","U+A72C","U+A72E","U+A732","U+A734","U+A736","U+A738","U+A73A","U+A73C","U+A73E","U+A740","U+A742","U+A744","U+A746","U+A748","U+A74A","U+A74C","U+A74E","U+A750","U+A752","U+A754","U+A756","U+A758","U+A75A","U+A75C","U+A75E","U+A760","U+A762","U+A764","U+A766","U+A768","U+A76A","U+A76C","U+A76E","U+A779","U+A77B","U+A77E","U+A780","U+A782","U+A784","U+A786","U+A78B","U+A790","U+A792","U+A7C4","U+A796","U+A798","U+A79A","U+A79C","U+A79E","U+A7A0","U+A7A2","U+A7A4","U+A7A6","U+A7A8","U+A7B4","U+A7B6","U+A7B8","U+A7BA","U+A7BC","U+A7BE","U+A7C0","U+A7C2","U+A7C7","U+A7C9","U+A7CC","U+A7CE","U+A7D0","U+A7D2","U+A7D4","U+A7D6","U+A7D8","U+A7DA","U+A7F5","U+A7B3","U+13A0","U+13A1","U+13A2","U+13A3","U+13A4","U+13A5","U+13A6","U+13A7","U+13A8","U+13A9","U+13AA","U+13AB","U+13AC","U+13AD","U+13AE","U+13AF","U+13B0","U+13B1","U+13B2","U+13B3","U+13B4","U+13B5","U+13B6","U+13B7","U+13B8","U+13B9","U+13BA","U+13BB","U+13BC","U+13BD","U+13BE","U+13BF","U+13C0","U+13C1","U+13C2","U+13C3","U+13C4","U+13C5","U+13C6","U+13C7","U+13C8","U+13C9","U+13CA","U+13CB","U+13CC","U+13CD","U+13CE","U+13CF","U+13D0","U+13D1","U+13D2","U+13D3","U+13D4","U+13D5","U+13D6","U+13D7","U+13D8","U+13D9","U+13DA","U+13DB","U+13DC","U+13DD","U+13DE","U+13DF","U+13E0","U+13E1","U+13E2","U+13E3","U+13E4","U+13E5","U+13E6","U+13E7","U+13E8","U+13E9","U+13EA","U+13EB","U+13EC","U+13ED","U+13EE","U+13EF","U+FF21","U+FF22","U+FF23","U+FF24","U+FF25","U+FF26","U+FF27","U+FF28","U+FF29","U+FF2A","U+FF2B","U+FF2C","U+FF2D","U+FF2E","U+FF2F","U+FF30","U+FF31","U+FF32","U+FF33","U+FF34","U+FF35","U+FF36","U+FF37","U+FF38","U+FF39","U+FF3A"
  >>

\* the code units whose uppercase form is two code units
TwoChars ==
  <<
    "U+00DF","U+0149","U+01F0","U+0587","U+1E96","U+1E97","U+1E98","U+1E99","U+1E9A","U+1F50","U+1F80","U+1F81","U+1F82","U+1F83","U+1F84","U+1F85","U+1F86","U+1F87","U+1F88","U+1F89","U+1F8A","U+1F8B","U+1F8C","U+1F8D","U+1F8E","U+1F8F","U+1F90","U+1F91","U+1F92","U+1F93","U+1F94","U+1F95","U+1F96","U+1F97","U+1F98","U+1F99","U+1F9A","U+1F9B","U+1F9C","U+1F9D","U+1F9E","U+1F9F","U+1FA0","U+1FA1","U+1FA2","U+1FA3","U+1FA4","U+1FA5","U+1FA6","U+1FA7","U+1FA8","U+1FA9","U+1FAA","U+1FAB","U+1FAC","U+1FAD","U+1FAE","U+1FAF","U+1FB2","U+1FB3","U+1FB4","U+1FB6","U+1FBC","U+1FC2","U+1FC3","U+1FC4","U+1FC6","U+1FCC","U+1FD6","U+1FE4","U+1FE6","U+1FF2","U+1FF3","U+1FF4","U+1FF6","U+1FFC","U+FB00","U+FB01","U+FB02","U+FB05","U+FB06","U+FB13","U+FB14","U+FB15","U+FB16","U+FB17"
  >>

\* the uppercase form of each of them, in the same order, two code units
\* each
TwoForms ==
  <<
    "S","S","U+02BC","N","J","U+030C","U+0535","U+0552","H","U+0331","T","U+0308","W","U+030A","Y","U+030A","A","U+02BE","U+03A5","U+0313","U+1F08","U+0399","U+1F09","U+0399","U+1F0A","U+0399","U+1F0B","U+0399","U+1F0C","U+0399","U+1F0D","U+0399","U+1F0E","U+0399","U+1F0F","U+0399","U+1F08","U+0399","U+1F09","U+0399","U+1F0A","U+0399","U+1F0B","U+0399","U+1F0C","U+0399","U+1F0D","U+0399","U+1F0E","U+0399","U+1F0F","U+0399","U+1F28","U+0399","U+1F29","U+0399","U+1F2A","U+0399","U+1F2B","U+0399","U+1F2C","U+0399","U+1F2D","U+0399","U+1F2E","U+0399","U+1F2F","U+0399","U+1F28","U+0399","U+1F29","U+0399","U+1F2A","U+0399","U+1F2B","U+0399","U+1F2C","U+0399","U+1F2D","U+0399","U+1F2E","U+0399","U+1F2F","U+0399","U+1F68","U+0399","U+1F69","U+0399","U+1F6A","U+0399","U+1F6B","U+0399","U+1F6C","U+0399","U+1F6D","U+0399","U+1F6E","U+0399","U+1F6F","U+0399","U+1F68","U+0399","U+1F69","U+0399","U+1F6A","U+0399","U+1F6B","U+0399","U+1F6C","U+0399","U+1F6D","U+0399","U+1F6E","U+0399","U+1F6F","U+0399","U+1FBA","U+0399","U+0391","U+0399","U+0386","U+0399","U+0391","U+0342","U+0391","U+0399","U+1FCA","U+0399","U+0397","U+0399","U+0389","U+0399","U+0397","U+0342","U+0397","U+0399","U+0399","U+0342","U+03A1","U+0313","U+03A5","U+0342","U+1FFA","U+0399","U+03A9","U+0399","U+038F","U+0399","U+03A9","U+0342","U+03A9","U+0399","F","F","F","I","F","L","S","T","S","T","U+0544","U+0546","U+0544","U+0535","U+0544","U+053B","U+054E","U+0546","U+0544","U+053D"
  >>

\* the code units whose uppercase form is three code units
ThreeChars ==
  <<
    "U+0390","U+03B0","U+1F52","U+1F54","U+1F56","U+1FB7","U+1FC7","U+1FD2","U+1FD3","U+1FD7","U+1FE2","U+1FE3","U+1FE7","U+1FF7","U+FB03","U+FB04"
  >>

\* the uppercase form of each of them, in the same order, three code units
\* each
ThreeForms ==
  <<
    "U+0399","U+0308","U+0301","U+03A5","U+0308","U+0301","U+03A5","U+0313","U+0300","U+03A5","U+0313","U+0301","U+03A5","U+0313","U+0342","U+0391","U+0342","U+0399","U+0397","U+0342","U+0399","U+0399","U+0308","U+0300","U+0399","U+0308","U+0301","U+0399","U+0308","U+0342","U+03A5","U+0308","U+0300","U+03A5","U+0308","U+0301","U+03A5","U+0308","U+0342","U+03A9","U+0342","U+0399","F","F","I","F","F","L"
  >>

\* the letters outside the basic plane that have an uppercase form, two
\* surrogates each
PairChars ==
  <<
    "U+D801","U+DC28","U+D801","U+DC29","U+D801","U+DC2A","U+D801","U+DC2B","U+D801","U+DC2C","U+D801","U+DC2D","U+D801","U+DC2E","U+D801","U+DC2F","U+D801","U+DC30","U+D801","U+DC31","U+D801","U+DC32","U+D801","U+DC33","U+D801","U+DC34","U+D801","U+DC35","U+D801","U+DC36","U+D801","U+DC37","U+D801","U+DC38","U+D801","U+DC39","U+D801","U+DC3A","U+D801","U+DC3B","U+D801","U+DC3C","U+D801","U+DC3D","U+D801","U+DC3E","U+D801","U+DC3F","U+D801","U+DC40","U+D801","U+DC41","U+D801","U+DC42","U+D801","U+DC43","U+D801","U+DC44","U+D801","U+DC45","U+D801","U+DC46","U+D801","U+DC47","U+D801","U+DC48","U+D801","U+DC49","U+D801","U+DC4A","U+D801","U+DC4B","U+D801","U+DC4C","U+D801","U+DC4D","U+D801","U+DC4E","U+D801","U+DC4F","U+D801","U+DCD8","U+D801","U+DCD9","U+D801","U+DCDA","U+D801","U+DCDB","U+D801","U+DCDC","U+D801","U+DCDD","U+D801","U+DCDE","U+D801","U+DCDF","U+D801","U+DCE0","U+D801","U+DCE1","U+D801","U+DCE2","U+D801","U+DCE3","U+D801","U+DCE4","U+D801","U+DCE5","U+D801","U+DCE6","U+D801","U+DCE7","U+D801","U+DCE8","U+D801","U+DCE9","U+D801","U+DCEA","U+D801","U+DCEB","U+D801","U+DCEC","U+D801","U+DCED","U+D801","U+DCEE","U+D801","U+DCEF","U+D801","U+DCF0","U+D801","U+DCF1","U+D801","U+DCF2","U+D801","U+DCF3","U+D801","U+DCF4","U+D801","U+DCF5","U+D801","U+DCF6","U+D801","U+DCF7","U+D801","U+DCF8","U+D801","U+DCF9","U+D801","U+DCFA","U+D801","U+DCFB","U+D801","U+DD97","U+D801","U+DD98","U+D801","U+DD99","U+D801","U+DD9A","U+D801","U+DD9B","U+D801","U+DD9C","U+D801","U+DD9D","U+D801","U+DD9E","U+D801","U+DD9F","U+D801","U+DDA0","U+D801","U+DDA1","U+D801","U+DDA3","U+D801","U+DDA4","U+D801","U+DDA5","U+D801","U+DDA6","U+D801","U+DDA7","U+D801","U+DDA8","U+D801","U+DDA9","U+D801","U+DDAA","U+D801","U+DDAB","U+D801","U+DDAC","U+D801","U+DDAD","U+D801","U+DDAE","U+D801","U+DDAF","U+D801","U+DDB0","U+D801","U+DDB1","U+D801","U+DDB3","U+D801","U+DDB4","U+D801","U+DDB5","U+D801","U+DDB6","U+D801","U+DDB7","U+D801","U+DDB8","U+D801","U+DDB9","U+D801","U+DDBB","U+D801","U+DDBC","U+D803","U+DCC0","U+D803","U+DCC1","U+D803","U+DCC2","U+D803","U+DCC3","U+D803","U+DCC4","U+D803","U+DCC5","U+D803","U+DCC6","U+D803","U+DCC7","U+D803","U+DCC8","U+D803","U+DCC9","U+D803","U+DCCA","U+D803","U+DCCB","U+D803","U+DCCC","U+D803","U+DCCD","U+D803","U+DCCE","U+D803","U+DCCF","U+D803","U+DCD0","U+D803","U+DCD1","U+D803","U+DCD2","U+D803","U+DCD3","U+D803","U+DCD4","U+D803","U+DCD5","U+D803","U+DCD6","U+D803","U+DCD7","U+D803","U+DCD8","U+D803","U+DCD9","U+D803","U+DCDA","U+D803","U+DCDB","U+D803","U+DCDC","U+D803","U+DCDD","U+D803","U+DCDE","U+D803","U+DCDF","U+D803","U+DCE0","U+D803","U+DCE1","U+D803","U+DCE2","U+D803","U+DCE3","U+D803","U+DCE4","U+D803","U+DCE5","U+D803","U+DCE6","U+D803","U+DCE7","U+D803","U+DCE8","U+D803","U+DCE9","U+D803","U+DCEA","U+D803","U+DCEB","U+D803","U+DCEC","U+D803","U+DCED","U+D803","U+DCEE","U+D803","U+DCEF","U+D803","U+DCF0","U+D803","U+DCF1","U+D803","U+DCF2","U+D803","U+DD70","U+D803","U+DD71","U+D803","U+DD72","U+D803","U+DD73","U+D803","U+DD74","U+D803","U+DD75","U+D803","U+DD76","U+D803","U+DD77","U+D803","U+DD78","U+D803","U+DD79","U+D803","U+DD7A","U+D803","U+DD7B","U+D803","U+DD7C","U+D803","U+DD7D","U+D803","U+DD7E","U+D803","U+DD7F","U+D803","U+DD80","U+D803","U+DD81","U+D803","U+DD82","U+D803","U+DD83","U+D803","U+DD84","U+D803","U+DD85","U+D806","U+DCC0","U+D806","U+DCC1","U+D806","U+DCC2","U+D806","U+DCC3","U+D806","U+DCC4","U+D806","U+DCC5","U+D806","U+DCC6","U+D806","U+DCC7","U+D806","U+DCC8","U+D806","U+DCC9","U+D806","U+DCCA","U+D806","U+DCCB","U+D806","U+DCCC","U+D806","U+DCCD","U+D806","U+DCCE","U+D806","U+DCCF","U+D806","U+DCD0","U+D806","U+DCD1","U+D806","U+DCD2","U+D806","U+DCD3","U+D806","U+DCD4","U+D806","U+DCD5","U+D806","U+DCD6","U+D806","U+DCD7","U+D806","U+DCD8","U+D806","U+DCD9","U+D806","U+DCDA","U+D806","U+DCDB","U+D806","U+DCDC","U+D806","U+DCDD","U+D806","U+DCDE","U+D806","U+DCDF","U+D81B","U+DE60","U+D81B","U+DE61","U+D81B","U+DE62","U+D81B","U+DE63","U+D81B","U+DE64","U+D81B","U+DE65","U+D81B","U+DE66","U+D81B","U+DE67","U+D81B","U+DE68","U+D81B","U+DE69","U+D81B","U+DE6A","U+D81B","U+DE6B","U+D81B","U+DE6C","U+D81B","U+DE6D","U+D81B","U+DE6E","U+D81B","U+DE6F","U+D81B","U+DE70","U+D81B","U+DE71","U+D81B","U+DE72","U+D81B","U+DE73","U+D81B","U+DE74","U+D81B","U+DE75","U+D81B","U+DE76","U+D81B","U+DE77","U+D81B","U+DE78","U+D81B","U+DE79","U+D81B","U+DE7A","U+D81B","U+DE7B","U+D81B","U+DE7C","U+D81B","U+DE7D","U+D81B","U+DE7E","U+D81B","U+DE7F","U+D81B","U+DEBB","U+D81B","U+DEBC","U+D81B","U+DEBD","U+D81B","U+DEBE","U+D81B","U+DEBF","U+D81B","U+DEC0","U+D81B","U+DEC1","U+D81B","U+DEC2","U+D81B","U+DEC3","U+D81B","U+DEC4","U+D81B","U+DEC5","U+D81B","U+DEC6","U+D81B","U+DEC7","U+D81B","U+DEC8","U+D81B","U+DEC9","U+D81B","U+DECA","U+D81B","U+DECB","U+D81B","U+DECC","U+D81B","U+DECD","U+D81B","U+DECE","U+D81B","U+DECF","U+D81B","U+DED0","U+D81B","U+DED1","U+D81B","U+DED2","U+D81B","U+DED3","U+D83A","U+DD22","U+D83A","U+DD23","U+D83A","U+DD24","U+D83A","U+DD25","U+D83A","U+DD26","U+D83A","U+DD27","U+D83A","U+DD28","U+D83A","U+DD29","U+D83A","U+DD2A","U+D83A","U+DD2B","U+D83A","U+DD2C","U+D83A","U+DD2D","U+D83A","U+DD2E","U+D83A","U+DD2F","U+D83A","U+DD30","U+D83A","U+DD31","U+D83A","U+DD32","U+D83A","U+DD33","U+D83A","U+DD34","U+D83A","U+DD35","U+D83A","U+DD36","U+D83A","U+DD37","U+D83A","U+DD38","U+D83A","U+DD39","U+D83A","U+DD3A","U+D83A","U+DD3B","U+D83A","U+DD3C","U+D83A","U+DD3D","U+D83A","U+DD3E","U+D83A","U+DD3F","U+D83A","U+DD40","U+D83A","U+DD41","U+D83A","U+DD42","U+D83A","U+DD43"
  >>

\* the uppercase form of each of them, in the same order, two surrogates
\* each
PairForms ==
  <<
    "U+D801","U+DC00","U+D801","U+DC01","U+D801","U+DC02","U+D801","U+DC03","U+D801","U+DC04","U+D801","U+DC05","U+D801","U+DC06","U+D801","U+DC07","U+D801","U+DC08","U+D801","U+DC09","U+D801","U+DC0A","U+D801","U+DC0B","U+D801","U+DC0C","U+D801","U+DC0D","U+D801","U+DC0E","U+D801","U+DC0F","U+D801","U+DC10","U+D801","U+DC11","U+D801","U+DC12","U+D801","U+DC13","U+D801","U+DC14","U+D801","U+DC15","U+D801","U+DC16","U+D801","U+DC17","U+D801","U+DC18","U+D801","U+DC19","U+D801","U+DC1A","U+D801","U+DC1B","U+D801","U+DC1C","U+D801","U+DC1D","U+D801","U+DC1E","U+D801","U+DC1F","U+D801","U+DC20","U+D801","U+DC21","U+D801","U+DC22","U+D801","U+DC23","U+D801","U+DC24","U+D801","U+DC25","U+D801","U+DC26","U+D801","U+DC27","U+D801","U+DCB0","U+D801","U+DCB1","U+D801","U+DCB2","U+D801","U+DCB3","U+D801","U+DCB4","U+D801","U+DCB5","U+D801","U+DCB6","U+D801","U+DCB7","U+D801","U+DCB8","U+D801","U+DCB9","U+D801","U+DCBA","U+D801","U+DCBB","U+D801","U+DCBC","U+D801","U+DCBD","U+D801","U+DCBE","U+D801","U+DCBF","U+D801","U+DCC0","U+D801","U+DCC1","U+D801","U+DCC2","U+D801","U+DCC3","U+D801","U+DCC4","U+D801","U+DCC5","U+D801","U+DCC6","U+D801","U+DCC7","U+D801","U+DCC8","U+D801","U+DCC9","U+D801","U+DCCA","U+D801","U+DCCB","U+D801","U+DCCC","U+D801","U+DCCD","U+D801","U+DCCE","U+D801","U+DCCF","U+D801","U+DCD0","U+D801","U+DCD1","U+D801","U+DCD2","U+D801","U+DCD3","U+D801","U+DD70","U+D801","U+DD71","U+D801","U+DD72","U+D801","U+DD73","U+D801","U+DD74","U+D801","U+DD75","U+D801","U+DD76","U+D801","U+DD77","U+D801","U+DD78","U+D801","U+DD79","U+D801","U+DD7A","U+D801","U+DD7C","U+D801","U+DD7D","U+D801","U+DD7E","U+D801","U+DD7F","U+D801","U+DD80","U+D801","U+DD81","U+D801","U+DD82","U+D801","U+DD83","U+D801","U+DD84","U+D801","U+DD85","U+D801","U+DD86","U+D801","U+DD87","U+D801","U+DD88","U+D801","U+DD89","U+D801","U+DD8A","U+D801","U+DD8C","U+D801","U+DD8D","U+D801","U+DD8E","U+D801","U+DD8F","U+D801","U+DD90","U+D801","U+DD91","U+D801","U+DD92","U+D801","U+DD94","U+D801","U+DD95","U+D803","U+DC80","U+D803","U+DC81","U+D803","U+DC82","U+D803","U+DC83","U+D803","U+DC84","U+D803","U+DC85","U+D803","U+DC86","U+D803","U+DC87","U+D803","U+DC88","U+D803","U+DC89","U+D803","U+DC8A","U+D803","U+DC8B","U+D803","U+DC8C","U+D803","U+DC8D","U+D803","U+DC8E","U+D803","U+DC8F","U+D803","U+DC90","U+D803","U+DC91","U+D803","U+DC92","U+D803","U+DC93","U+D803","U+DC94","U+D803","U+DC95","U+D803","U+DC96","U+D803","U+DC97","U+D803","U+DC98","U+D803","U+DC99","U+D803","U+DC9A","U+D803","U+DC9B","U+D803","U+DC9C","U+D803","U+DC9D","U+D803","U+DC9E","U+D803","U+DC9F","U+D803","U+DCA0","U+D803","U+DCA1","U+D803","U+DCA2","U+D803","U+DCA3","U+D803","U+DCA4","U+D803","U+DCA5","U+D803","U+DCA6","U+D803","U+DCA7","U+D803","U+DCA8","U+D803","U+DCA9","U+D803","U+DCAA","U+D803","U+DCAB","U+D803","U+DCAC","U+D803","U+DCAD","U+D803","U+DCAE","U+D803","U+DCAF","U+D803","U+DCB0","U+D803","U+DCB1","U+D803","U+DCB2","U+D803","U+DD50","U+D803","U+DD51","U+D803","U+DD52","U+D803","U+DD53","U+D803","U+DD54","U+D803","U+DD55","U+D803","U+DD56","U+D803","U+DD57","U+D803","U+DD58","U+D803","U+DD59","U+D803","U+DD5A","U+D803","U+DD5B","U+D803","U+DD5C","U+D803","U+DD5D","U+D803","U+DD5E","U+D803","U+DD5F","U+D803","U+DD60","U+D803","U+DD61","U+D803","U+DD62","U+D803","U+DD63","U+D803","U+DD64","U+D803","U+DD65","U+D806","U+DCA0","U+D806","U+DCA1","U+D806","U+DCA2","U+D806","U+DCA3","U+D806","U+DCA4","U+D806","U+DCA5","U+D806","U+DCA6","U+D806","U+DCA7","U+D806","U+DCA8","U+D806","U+DCA9","U+D806","U+DCAA","U+D806","U+DCAB","U+D806","U+DCAC","U+D806","U+DCAD","U+D806","U+DCAE","U+D806","U+DCAF","U+D806","U+DCB0","U+D806","U+DCB1","U+D806","U+DCB2","U+D806","U+DCB3","U+D806","U+DCB4","U+D806","U+DCB5","U+D806","U+DCB6","U+D806","U+DCB7","U+D806","U+DCB8","U+D806","U+DCB9","U+D806","U+DCBA","U+D806","U+DCBB","U+D806","U+DCBC","U+D806","U+DCBD","U+D806","U+DCBE","U+D806","U+DCBF","U+D81B","U+DE40","U+D81B","U+DE41","U+D81B","U+DE42","U+D81B","U+DE43","U+D81B","U+DE44","U+D81B","U+DE45","U+D81B","U+DE46","U+D81B","U+DE47","U+D81B","U+DE48","U+D81B","U+DE49","U+D81B","U+DE4A","U+D81B","U+DE4B","U+D81B","U+DE4C","U+D81B","U+DE4D","U+D81B","U+DE4E","U+D81B","U+DE4F","U+D81B","U+DE50","U+D81B","U+DE51","U+D81B","U+DE52","U+D81B","U+DE53","U+D81B","U+DE54","U+D81B","U+DE55","U+D81B","U+DE56","U+D81B","U+DE57","U+D81B","U+DE58","U+D81B","U+DE59","U+D81B","U+DE5A","U+D81B","U+DE5B","U+D81B","U+DE5C","U+D81B","U+DE5D","U+D81B","U+DE5E","U+D81B","U+DE5F","U+D81B","U+DEA0","U+D81B","U+DEA1","U+D81B","U+DEA2","U+D81B","U+DEA3","U+D81B","U+DEA4","U+D81B","U+DEA5","U+D81B","U+DEA6","U+D81B","U+DEA7","U+D81B","U+DEA8","U+D81B","U+DEA9","U+D81B","U+DEAA","U+D81B","U+DEAB","U+D81B","U+DEAC","U+D81B","U+DEAD","U+D81B","U+DEAE","U+D81B","U+DEAF","U+D81B","U+DEB0","U+D81B","U+DEB1","U+D81B","U+DEB2","U+D81B","U+DEB3","U+D81B","U+DEB4","U+D81B","U+DEB5","U+D81B","U+DEB6","U+D81B","U+DEB7","U+D81B","U+DEB8","U+D83A","U+DD00","U+D83A","U+DD01","U+D83A","U+DD02","U+D83A","U+DD03","U+D83A","U+DD04","U+D83A","U+DD05","U+D83A","U+DD06","U+D83A","U+DD07","U+D83A","U+DD08","U+D83A","U+DD09","U+D83A","U+DD0A","U+D83A","U+DD0B","U+D83A","U+DD0C","U+D83A","U+DD0D","U+D83A","U+DD0E","U+D83A","U+DD0F","U+D83A","U+DD10","U+D83A","U+DD11","U+D83A","U+DD12","U+D83A","U+DD13","U+D83A","U+DD14","U+D83A","U+DD15","U+D83A","U+DD16","U+D83A","U+DD17","U+D83A","U+DD18","U+D83A","U+DD19","U+D83A","U+DD1A","U+D83A","U+DD1B","U+D83A","U+DD1C","U+D83A","U+DD1D","U+D83A","U+DD1E","U+D83A","U+DD1F","U+D83A","U+DD20","U+D83A","U+DD21"
  >>

\* the code units whose lowercase form is one other code unit
CapitalChars ==
  <<
    "A","B","C","D","E","F","G","H","I","J","K","L","M","N","O","P","Q","R","S","T","U","V","W","X","Y","Z","U+00C0","U+00C1","U+00C2","U+00C3","U+00C4","U+00C5","U+00C6","U+00C7","U+00C8","U+00C9","U+00CA","U+00CB","U+00CC","U+00CD","U+00CE","U+00CF","U+00D0","U+00D1","U+00D2","U+00D3","U+00D4","U+00D5","U+00D6","U+00D8","U+00D9","U+00DA","U+00DB","U+00DC","U+00DD","U+00DE","U+0100","U+0102","U+0104","U+0106","U+0108","U+010A","U+010C","U+010E","U+0110","U+0112","U+0114","U+0116","U+0118","U+011A","U+011C","U+011E","U+0120","U+0122","U+0124","U+0126","U+0128","U+012A","U+012C","U+012E","U+0132","U+0134","U+0136","U+0139","U+013B","U+013D","U+013F","U+0141","U+0143","U+0145","U+0147","U+014A","U+014C","U+014E","U+0150","U+0152","U+0154","U+0156","U+0158","U+015A","U+015C","U+015E","U+0160","U+0162","U+0164","U+0166","U+0168","U+016A","U+016C","U+016E","U+0170","U+0172","U+0174","U+0176","U+0178","U+0179","U+017B","U+017D","U+0181","U+0182","U+0184","U+0186","U+0187","U+0189","U+018A","U+018B","U+018E","U+018F","U+0190","U+0191","U+0193","U+0194","U+0196","U+0197","U+0198","U+019C","U+019D","U+019F","U+01A0","U+01A2","U+01A4","U+01A6","U+01A7","U+01A9","U+01AC","U+01AE","U+01AF","U+01B1","U+01B2","U+01B3","U+01B5","U+01B7","U+01B8","U+01BC","U+01C4","U+01C5","U+01C7","U+01C8","U+01CA","U+01CB","U+01CD","U+01CF","U+01D1","U+01D3","U+01D5","U+01D7","U+01D9","U+01DB","U+01DE","U+01E0","U+01E2","U+01E4","U+01E6","U+01E8","U+01EA","U+01EC","U+01EE","U+01F1","U+01F2","U+01F4","U+01F6","U+01F7","U+01F8","U+01FA","U+01FC","U+01FE","U+0200","U+0202","U+0204","U+0206","U+0208","U+020A","U+020C","U+020E","U+0210","U+0212","U+0214","U+0216","U+0218","U+021A","U+021C","U+021E","U+0220","U+0222","U+0224","U+0226","U+0228","U+022A","U+022C","U+022E","U+0230","U+0232","U+023A","U+023B","U+023D","U+023E","U+0241","U+0243","U+0244","U+0245","U+0246","U+0248","U+024A","U+024C","U+024E","U+0370","U+0372","U+0376","U+037F","U+0386","U+0388","U+0389","U+038A","U+038C","U+038E","U+038F","U+0391","U+0392","U+0393","U+0394","U+0395","U+0396","U+0397","U+0398","U+0399","U+039A","U+039B","U+039C","U+039D","U+039E","U+039F","U+03A0","U+03A1","U+03A3","U+03A4","U+03A5","U+03A6","U+03A7","U+03A8","U+03A9","U+03AA","U+03AB","U+03CF","U+03D8","U+03DA","U+03DC","U+03DE","U+03E0","U+03E2","U+03E4","U+03E6","U+03E8","U+03EA","U+03EC","U+03EE","U+03F4","U+03F7","U+03F9","U+03FA","U+03FD","U+03FE","U+03FF","U+0400","U+0401","U+0402","U+0403","U+0404","U+0405","U+0406","U+0407","U+0408","U+0409","U+040A","U+040B","U+040C","U+040D","U+040E","U+040F","U+0410","U+0411","U+0412","U+0413","U+0414","U+0415","U+0416","U+0417","U+0418","U+0419","U+041A","U+041B","U+041C","U+041D","U+041E","U+041F","U+0420","U+0421","U+0422","U+0423","U+0424","U+0425","U+0426","U+0427","U+0428","U+0429","U+042A","U+042B","U+042C","U+042D","U+042E","U+042F","U+0460","U+0462","U+0464","U+0466","U+0468","U+046A","U+046C","U+046E","U+0470","U+0472","U+0474","U+0476","U+0478","U+047A","U+047C","U+047E","U+0480","U+048A","U+048C","U+048E","U+0490","U+0492","U+0494","U+0496","U+0498","U+049A","U+049C","U+049E","U+04A0","U+04A2","U+04A4","U+04A6","U+04A8","U+04AA","U+04AC","U+04AE","U+04B0","U+04B2","U+04B4","U+04B6","U+04B8","U+04BA","U+04BC","U+04BE","U+04C0","U+04C1","U+04C3","U+04C5","U+04C7","U+04C9","U+04CB","U+04CD","U+04D0","U+04D2","U+04D4","U+04D6","U+04D8","U+04DA","U+04DC","U+04DE","U+04E0","U+04E2","U+04E4","U+04E6","U+04E8","U+04EA","U+04EC","U+04EE","U+04F0","U+04F2","U+04F4","U+04F6","U+04F8","U+04FA","U+04FC","U+04FE","U+0500","U+0502","U+0504","U+0506","U+0508","U+050A","U+050C","U+050E","U+0510","U+0512","U+0514","U+0516","U+0518","U+051A","U+051C","U+051E","U+0520","U+0522","U+0524","U+0526","U+0528","U+052A","U+052C","U+052E","U+0531","U+0532","U+0533","U+0534","U+0535","U+0536","U+0537","U+0538","U+0539","U+053A","U+053B","U+053C","U+053D","U+053E","U+053F","U+0540","U+0541","U+0542","U+0543","U+0544","U+0545","U+0546","U+0547","U+0548","U+0549","U+054A","U+054B","U+054C","U+054D","U+054E","U+054F","U+0550","U+0551","U+0552","U+0553","U+0554","U+0555","U+0556","U+10A0","U+10A1","U+10A2","U+10A3","U+10A4","U+10A5","U+10A6","U+10A7","U+10A8","U+10A9","U+10AA","U+10AB","U+10AC","U+10AD","U+10AE","U+10AF","U+10B0","U+10B1","U+10B2","U+10B3","U+10B4","U+10B5","U+10B6","U+10B7","U+10B8","U+10B9","U+10BA","U+10BB","U+10BC","U+10BD","U+10BE","U+10BF","U+10C0","U+10C1","U+10C2","U+10C3","U+10C4","U+10C5","U+10C7","U+10CD","U+13A0","U+13A1","U+13A2","U+13A3","U+13A4","U+13A5","U+13A6","U+13A7","U+13A8","U+13A9","U+13AA","U+13AB","U+13AC","U+13AD","U+13AE","U+13AF","U+13B0","U+13B1","U+13B2","U+13B3","U+13B4","U+13B5","U+13B6","U+13B7","U+13B8","U+13B9","U+13BA","U+13BB","U+13BC","U+13BD","U+13BE","U+13BF","U+13C0","U+13C1","U+13C2","U+13C3","U+13C4","U+13C5","U+13C6","U+13C7","U+13C8","U+13C9","U+13CA","U+13CB","U+13CC","U+13CD","U+13CE","U+13CF","U+13D0","U+13D1","U+13D2","U+13D3","U+13D4","U+13D5","U+13D6","U+13D7","U+13D8","U+13D9","U+13DA","U+13DB","U+13DC","U+13DD","U+13DE","U+13DF","U+13E0","U+13E1","U+13E2","U+13E3","U+13E4","U+13E5","U+13E6","U+13E7","U+13E8","U+13E9","U+13EA","U+13EB","U+13EC","U+13ED","U+13EE","U+13EF","U+13F0","U+13F1","U+13F2","U+13F3","U+13F4","U+13F5","U+1C89","U+1C90","U+1C91","U+1C92","U+1C93","U+1C94","U+1C95","U+1C96","U+1C97","U+1C98","U+1C99","U+1C9A","U+1C9B","U+1C9C","U+1C9D","U+1C9E","U+1C9F","U+1CA0","U+1CA1","U+1CA2","U+1CA3","U+1CA4","U+1CA5","U+1CA6","U+1CA7","U+1CA8","U+1CA9","U+1CAA","U+1CAB","U+1CAC","U+1CAD","U+1CAE","U+1CAF","U+1CB0","U+1CB1","U+1CB2","U+1CB3","U+1CB4","U+1CB5","U+1CB6","U+1CB7","U+1CB8","U+1CB9","U+1CBA","U+1CBD","U+1CBE","U+1CBF","U+1E00","U+1E02","U+1E04","U+1E06","U+1E08","U+1E0A","U+1E0C","U+1E0E","U+1E10","U+1E12","U+1E14","U+1E16","U+1E18","U+1E1A","U+1E1C","U+1E1E","U+1E20","U+1E22","U+1E24","U+1E26","U+1E28","U+1E2A","U+1E2C","U+1E2E","U+1E30","U+1E32","U+1E34","U+1E36","U+1E38","U+1E3A","U+1E3C","U+1E3E","U+1E40","U+1E42","U+1E44","U+1E46","U+1E48","U+1E4A","U+1E4C","U+1E4E","U+1E50","U+1E52","U+1E54","U+1E56","U+1E58","U+1E5A","U+1E5C","U+1E5E","U+1E60","U+1E62","U+1E64","U+1E66","U+1E68","U+1E6A","U+1E6C","U+1E6E","U+1E70","U+1E72","U+1E74","U+1E76","U+1E78","U+1E7A","U+1E7C","U+1E7E","U+1E80","U+1E82","U+1E84","U+1E86","U+1E88","U+1E8A","U+1E8C","U+1E8E","U+1E90","U+1E92","U+1E94","U+1E9E","U+1EA0","U+1EA2","U+1EA4","U+1EA6","U+1EA8","U+1EAA","U+1EAC","U+1EAE","U+1EB0","U+1EB2","U+1EB4","U+1EB6","U+1EB8","U+1EBA","U+1EBC","U+1EBE","U+1EC0","U+1EC2","U+1EC4","U+1EC6","U+1EC8","U+1ECA","U+1ECC","U+1ECE","U+1ED0","U+1ED2","U+1ED4","U+1ED6","U+1ED8","U+1EDA","U+1EDC","U+1EDE","U+1EE0","U+1EE2","U+1EE4","U+1EE6","U+1EE8","U+1EEA","U+1EEC","U+1EEE","U+1EF0","U+1EF2","U+1EF4","U+1EF6","U+1EF8","U+1EFA","U+1EFC","U+1EFE","U+1F08","U+1F09","U+1F0A","U+1F0B","U+1F0C","U+1F0D","U+1F0E","U+1F0F","U+1F18","U+1F19","U+1F1A","U+1F1B","U+1F1C","U+1F1D","U+1F28","U+1F29","U+1F2A","U+1F2B","U+1F2C","U+1F2D","U+1F2E","U+1F2F","U+1F38","U+1F39","U+1F3A","U+1F3B","U+1F3C","U+1F3D","U+1F3E","U+1F3F","U+1F48","U+1F49","U+1F4A","U+1F4B","U+1F4C","U+1F4D","U+1F59","U+1F5B","U+1F5D","U+1F5F","U+1F68","U+1F69","U+1F6A","U+1F6B","U+1F6C","U+1F6D","U+1F6E","U+1F6F","U+1F88","U+1F89","U+1F8A","U+1F8B","U+1F8C","U+1F8D","U+1F8E","U+1F8F","U+1F98","U+1F99","U+1F9A","U+1F9B","U+1F9C","U+1F9D","U+1F9E","U+1F9F","U+1FA8","U+1FA9","U+1FAA","U+1FAB","U+1FAC","U+1FAD","U+1FAE","U+1FAF","U+1FB8","U+1FB9","U+1FBA","U+1FBB","U+1FBC","U+1FC8","U+1FC9","U+1FCA","U+1FCB","U+1FCC","U+1FD8","U+1FD9","U+1FDA","U+1FDB","U+1FE8","U+1FE9","U+1FEA","U+1FEB","U+1FEC","U+1FF8","U+1FF9","U+1FFA","U+1FFB","U+1FFC","U+2126","U+212A","U+212B","U+2132","U+2160","U+2161","U+2162","U+2163","U+2164","U+2165","U+2166","U+2167","U+2168","U+2169","U+216A","U+216B","U+216C","U+216D","U+216E","U+216F","U+2183","U+24B6","U+24B7","U+24B8","U+24B9","U+24BA","U+24BB","U+24BC","U+24BD","U+24BE","U+24BF","U+24C0","U+24C1","U+24C2","U+24C3","U+24C4","U+24C5","U+24C6","U+24C7","U+24C8","U+24C9","U+24CA","U+24CB","U+24CC","U+24CD","U+24CE","U+24CF","U+2C00","U+2C01","U+2C02","U+2C03","U+2C04","U+2C05","U+2C06","U+2C07","U+2C08","U+2C09","U+2C0A","U+2C0B","U+2C0C","U+2C0D","U+2C0E","U+2C0F","U+2C10","U+2C11","U+2C12","U+2C13","U+2C14","U+2C15","U+2C16","U+2C17","U+2C18","U+2C19","U+2C1A","U+2C1B","U+2C1C","U+2C1D","U+2C1E","U+2C1F","U+2C20","U+2C21","U+2C22","U+2C23","U+2C24","U+2C25","U+2C26","U+2C27","U+2C28","U+2C29","U+2C2A","U+2C2B","U+2C2C","U+2C2D","U+2C2E","U+2C2F","U+2C60","U+2C62","U+2C63","U+2C64","U+2C67","U+2C69","U+2C6B","U+2C6D","U+2C6E","U+2C6F","U+2C70","U+2C72","U+2C75","U+2C7E","U+2C7F","U+2C80","U+2C82","U+2C84","U+2C86","U+2C88","U+2C8A","U+2C8C","U+2C8E","U+2C90","U+2C92","U+2C94","U+2C96","U+2C98","U+2C9A","U+2C9C","U+2C9E","U+2CA0","U+2CA2","U+2CA4","U+2CA6","U+2CA8","U+2CAA","U+2CAC","U+2CAE","U+2CB0","U+2CB2","U+2CB4","U+2CB6","U+2CB8","U+2CBA","U+2CBC","U+2CBE","U+2CC0","U+2CC2","U+2CC4","U+2CC6","U+2CC8","U+2CCA","U+2CCC","U+2CCE","U+2CD0","U+2CD2","U+2CD4","U+2CD6","U+2CD8","U+2CDA","U+2CDC","U+2CDE","U+2CE0","U+2CE2","U+2CEB","U+2CED","U+2CF2","U+A640","U+A642","U+A644","U+A646","U+A648","U+A64A","U+A64C","U+A64E","U+A650","U+A652","U+A654","U+A656","U+A658","U+A65A","U+A65C","U+A65E","U+A660","U+A662","U+A664","U+A666","U+A668","U+A66A","U+A66C","U+A680","U+A682","U+A684","U+A686","U+A688","U+A68A","U+A68C","U+A68E","U+A690","U+A692","U+A694","U+A696","U+A698","U+A69A","U+A722","U+A724","U+A726","U+A728","U+A72A","U+A72C","U+A72E","U+A732","U+A734","U+A736","U+A738","U+A73A","U+A73C","U+A73E","U+A740","U+A742","U+A744","U+A746","U+A748","U+A74A","U+A74C","U+A74E","U+A750","U+A752","U+A754","U+A756","U+A758","U+A75A","U+A75C","U+A75E","U+A760","U+A762","U+A764","U+A766","U+A768","U+A76A","U+A76C","U+A76E","U+A779","U+A77B","U+A77D","U+A77E","U+A780","U+A782","U+A784","U+A786","U+A78B","U+A78D","U+A790","U+A792","U+A796","U+A798","U+A79A","U+A79C","U+A79E","U+A7A0","U+A7A2","U+A7A4","U+A7A6","U+A7A8","U+A7AA","U+A7AB","U+A7AC","U+A7AD","U+A7AE","U+A7B0","U+A7B1","U+A7B2","U+A7B3","U+A7B4","U+A7B6","U+A7B8","U+A7BA","U+A7BC","U+A7BE","U+A7C0","U+A7C2","U+A7C4","U+A7C5","U+A7C6","U+A7C7","U+A7C9","U+A7CB","U+A7CC","U+A7CE","U+A7D0","U+A7D2","U+A7D4","U+A7D6","U+A7D8","U+A7DA","U+A7DC","U+A7F5","U+FF21","U+FF22","U+FF23","U+FF24","U+FF25","U+FF26","U+FF27","U+FF28","U+FF29","U+FF2A","U+FF2B","U+FF2C","U+FF2D","U+FF2E","U+FF2F","U+FF30","U+FF31","U+FF32","U+FF33","U+FF34","U+FF35","U+FF36","U+FF37","U+FF38","U+FF39","U+FF3A"
  >>

\* the lowercase form of each of them, in the same order
SmallChars ==
  <<
    "a","b","c","d","e","f","g","h","i","j","k","l","m","n","o","p","q","r","s","t","u","v","w","x","y","z","U+00E0","U+00E1","U+00E2","U+00E3","U+00E4","U+00E5","U+00E6","U+00E7","U+00E8","U+00E9","U+00EA","U+00EB","U+00EC","U+00ED","U+00EE","U+00EF","U+00F0","U+00F1","U+00F2","U+00F3","U+00F4","U+00F5","U+00F6","U+00F8","U+00F9","U+00FA","U+00FB","U+00FC","U+00FD","U+00FE","U+0101","U+0103","U+0105","U+0107","U+0109","U+010B","U+010D","U+010F","U+0111","U+0113","U+0115","U+0117","U+0119","U+011B","U+011D","U+011F","U+0121","U+0123","U+0125","U+0127","U+0129","U+012B","U+012D","U+012F","U+0133","U+0135","U+0137","U+013A","U+013C","U+013E","U+0140","U+0142","U+0144","U+0146","U+0148","U+014B","U+014D","U+014F","U+0151","U+0153","U+0155","U+0157","U+0159","U+015B","U+015D","U+015F","U+0161","U+0163","U+0165","U+0167","U+0169","U+016B","U+016D","U+016F","U+0171","U+0173","U+0175","U+0177","U+00FF","U+017A","U+017C","U+017E","U+0253","U+0183","U+0185","U+0254","U+0188","U+0256","U+0257","U+018C","U+01DD","U+0259","U+025B","U+0192","U+0260","U+0263","U+0269","U+0268","U+0199","U+026F","U+0272","U+0275","U+01A1","U+01A3","U+01A5","U+0280","U+01A8","U+0283","U+01AD","U+0288","U+01B0","U+028A","U+028B","U+01B4","U+01B6","U+0292","U+01B9","U+01BD","U+01C6","U+01C6","U+01C9","U+01C9","U+01CC","U+01CC","U+01CE","U+01D0","U+01D2","U+01D4","U+01D6","U+01D8","U+01DA","U+01DC","U+01DF","U+01E1","U+01E3","U+01E5","U+01E7","U+01E9","U+01EB","U+01ED","U+01EF","U+01F3","U+01F3","U+01F5","U+0195","U+01BF","U+01F9","U+01FB","U+01FD","U+01FF","U+0201","U+0203","U+0205","U+0207","U+0209","U+020B","U+020D","U+020F","U+0211","U+0213","U+0215","U+0217","U+0219","U+021B","U+021D","U+021F","U+019E","U+0223","U+0225","U+0227","U+0229","U+022B","U+022D","U+022F","U+0231","U+0233","U+2C65","U+023C","U+019A","U+2C66","U+0242","U+0180","U+0289","U+028C","U+0247","U+0249","U+024B","U+024D","U+024F","U+0371","U+0373","U+0377","U+03F3","U+03AC","U+03AD","U+03AE","U+03AF","U+03CC","U+03CD","U+03CE","U+03B1","U+03B2","U+03B3","U+03B4","U+03B5","U+03B6","U+03B7","U+03B8","U+03B9","U+03BA","U+03BB","U+03BC","U+03BD","U+03BE","U+03BF","U+03C0","U+03C1","U+03C3","U+03C4","U+03C5","U+03C6","U+03C7","U+03C8","U+03C9","U+03CA","U+03CB","U+03D7","U+03D9","U+03DB","U+03DD","U+03DF","U+03E1","U+03E3","U+03E5","U+03E7","U+03E9","U+03EB","U+03ED","U+03EF","U+03B8","U+03F8","U+03F2","U+03FB","U+037B","U+037C","U+037D","U+0450","U+0451","U+0452","U+0453","U+0454","U+0455","U+0456","U+0457","U+0458","U+0459","U+045A","U+045B","U+045C","U+045D","U+045E","U+045F","U+0430","U+0431","U+0432","U+0433","U+0434","U+0435","U+0436","U+0437","U+0438","U+0439","U+043A","U+043B","U+043C","U+043D","U+043E","U+043F","U+0440","U+0441","U+0442","U+0443","U+0444","U+0445","U+0446","U+0447","U+0448","U+0449","U+044A","U+044B","U+044C","U+044D","U+044E","U+044F","U+0461","U+0463","U+0465","U+0467","U+0469","U+046B","U+046D","U+046F","U+0471","U+0473","U+0475","U+0477","U+0479","U+047B","U+047D","U+047F","U+0481","U+048B","U+048D","U+048F","U+0491","U+0493","U+0495","U+0497","U+0499","U+049B","U+049D","U+049F","U+04A1","U+04A3","U+04A5","U+04A7","U+04A9","U+04AB","U+04AD","U+04AF","U+04B1","U+04B3","U+04B5","U+04B7","U+04B9","U+04BB","U+04BD","U+04BF","U+04CF","U+04C2","U+04C4","U+04C6","U+04C8","U+04CA","U+04CC","U+04CE","U+04D1","U+04D3","U+04D5","U+04D7","U+04D9","U+04DB","U+04DD","U+04DF","U+04E1","U+04E3","U+04E5","U+04E7","U+04E9","U+04EB","U+04ED","U+04EF","U+04F1","U+04F3","U+04F5","U+04F7","U+04F9","U+04FB","U+04FD","U+04FF","U+0501","U+0503","U+0505","U+0507","U+0509","U+050B","U+050D","U+050F","U+0511","U+0513","U+0515","U+0517","U+0519","U+051B","U+051D","U+051F","U+0521","U+0523","U+0525","U+0527","U+0529","U+052B","U+052D","U+052F","U+0561","U+0562","U+0563","U+0564","U+0565","U+0566","U+0567","U+0568","U+0569","U+056A","U+056B","U+056C","U+056D","U+056E","U+056F","U+0570","U+0571","U+0572","U+0573","U+0574","U+0575","U+0576","U+0577","U+0578","U+0579","U+057A","U+057B","U+057C","U+057D","U+057E","U+057F","U+0580","U+0581","U+0582","U+0583","U+0584","U+0585","U+0586","U+2D00","U+2D01","U+2D02","U+2D03","U+2D04","U+2D05","U+2D06","U+2D07","U+2D08","U+2D09","U+2D0A","U+2D0B","U+2D0C","U+2D0D","U+2D0E","U+2D0F","U+2D10","U+2D11","U+2D12","U+2D13","U+2D14","U+2D15","U+2D16","U+2D17","U+2D18","U+2D19","U+2D1A","U+2D1B","U+2D1C","U+2D1D","U+2D1E","U+2D1F","U+2D20","U+2D21","U+2D22","U+2D23","U+2D24","U+2D25","U+2D27","U+2D2D","U+AB70","U+AB71","U+AB72","U+AB73","U+AB74","U+AB75","U+AB76","U+AB77","U+AB78","U+AB79","U+AB7A","U+AB7B","U+AB7C","U+AB7D","U+AB7E","U+AB7F","U+AB80","U+AB81","U+AB82","U+AB83","U+AB84","U+AB85","U+AB86","U+AB87","U+AB88","U+AB89","U+AB8A","U+AB8B","U+AB8C","U+AB8D","U+AB8E","U+AB8F","U+AB90","U+AB91","U+AB92","U+AB93","U+AB94","U+AB95","U+AB96","U+AB97","U+AB98","U+AB99","U+AB9A","U+AB9B","U+AB9C","U+AB9D","U+AB9E","U+AB9F","U+ABA0","U+ABA1","U+ABA2","U+ABA3","U+ABA4","U+ABA5","U+ABA6","U+ABA7","U+ABA8","U+ABA9","U+ABAA","U+ABAB","U+ABAC","U+ABAD","U+ABAE","U+ABAF","U+ABB0","U+ABB1","U+ABB2","U+ABB3","U+ABB4","U+ABB5","U+ABB6","U+ABB7","U+ABB8","U+ABB9","U+ABBA","U+ABBB","U+ABBC","U+ABBD","U+ABBE","U+ABBF","U+13F8","U+13F9","U+13FA","U+13FB","U+13FC","U+13FD","U+1C8A","U+10D0","U+10D1","U+10D2","U+10D3","U+10D4","U+10D5","U+10D6","U+10D7","U+10D8","U+10D9","U+10DA","U+10DB","U+10DC","U+10DD","U+10DE","U+10DF","U+10E0","U+10E1","U+10E2","U+10E3","U+10E4","U+10E5","U+10E6","U+10E7","U+10E8","U+10E9","U+10EA","U+10EB","U+10EC","U+10ED","U+10EE","U+10EF","U+10F0","U+10F1","U+10F2","U+10F3","U+10F4","U+10F5","U+10F6","U+10F7","U+10F8","U+10F9","U+10FA","U+10FD","U+10FE","U+10FF","U+1E01","U+1E03","U+1E05","U+1E07","U+1E09","U+1E0B","U+1E0D","U+1E0F","U+1E11","U+1E13","U+1E15","U+1E17","U+1E19","U+1E1B","U+1E1D","U+1E1F","U+1E21","U+1E23","U+1E25","U+1E27","U+1E29","U+1E2B","U+1E2D","U+1E2F","U+1E31","U+1E33","U+1E35","U+1E37","U+1E39","U+1E3B","U+1E3D","U+1E3F","U+1E41","U+1E43","U+1E45","U+1E47","U+1E49","U+1E4B","U+1E4D","U+1E4F","U+1E51","U+1E53","U+1E55","U+1E57","U+1E59","U+1E5B","U+1E5D","U+1E5F","U+1E61","U+1E63","U+1E65","U+1E67","U+1E69","U+1E6B","U+1E6D","U+1E6F","U+1E71","U+1E73","U+1E75","U+1E77","U+1E79","U+1E7B","U+1E7D","U+1E7F","U+1E81","U+1E83","U+1E85","U+1E87","U+1E89","U+1E8B","U+1E8D","U+1E8F","U+1E91","U+1E93","U+1E95","U+00DF","U+1EA1","U+1EA3","U+1EA5","U+1EA7","U+1EA9","U+1EAB","U+1EAD","U+1EAF","U+1EB1","U+1EB3","U+1EB5","U+1EB7","U+1EB9","U+1EBB","U+1EBD","U+1EBF","U+1EC1","U+1EC3","U+1EC5","U+1EC7","U+1EC9","U+1ECB","U+1ECD","U+1ECF","U+1ED1","U+1ED3","U+1ED5","U+1ED7","U+1ED9","U+1EDB","U+1EDD","U+1EDF","U+1EE1","U+1EE3","U+1EE5","U+1EE7","U+1EE9","U+1EEB","U+1EED","U+1EEF","U+1EF1","U+1EF3","U+1EF5","U+1EF7","U+1EF9","U+1EFB","U+1EFD","U+1EFF","U+1F00","U+1F01","U+1F02","U+1F03","U+1F04","U+1F05","U+1F06","U+1F07","U+1F10","U+1F11","U+1F12","U+1F13","U+1F14","U+1F15","U+1F20","U+1F21","U+1F22","U+1F23","U+1F24","U+1F25","U+1F26","U+1F27","U+1F30","U+1F31","U+1F32","U+1F33","U+1F34","U+1F35","U+1F36","U+1F37","U+1F40","U+1F41","U+1F42","U+1F43","U+1F44","U+1F45","U+1F51","U+1F53","U+1F55","U+1F57","U+1F60","U+1F61","U+1F62","U+1F63","U+1F64","U+1F65","U+1F66","U+1F67","U+1F80","U+1F81","U+1F82","U+1F83","U+1F84","U+1F85","U+1F86","U+1F87","U+1F90","U+1F91","U+1F92","U+1F93","U+1F94","U+1F95","U+1F96","U+1F97","U+1FA0","U+1FA1","U+1FA2","U+1FA3","U+1FA4","U+1FA5","U+1FA6","U+1FA7","U+1FB0","U+1FB1","U+1F70","U+1F71","U+1FB3","U+1F72","U+1F73","U+1F74","U+1F75","U+1FC3","U+1FD0","U+1FD1","U+1F76","U+1F77","U+1FE0","U+1FE1","U+1F7A","U+1F7B","U+1FE5","U+1F78","U+1F79","U+1F7C","U+1F7D","U+1FF3","U+03C9","k","U+00E5","U+214E","U+2170","U+2171","U+2172","U+2173","U+2174","U+2175","U+2176","U+2177","U+2178","U+2179","U+217A","U+217B","U+217C","U+217D","U+217E","U+217F","U+2184","U+24D0","U+24D1","U+24D2","U+24D3","U+24D4","U+24D5","U+24D6","U+24D7","U+24D8","U+24D9","U+24DA","U+24DB","U+24DC","U+24DD","U+24DE","U+24DF","U+24E0","U+24E1","U+24E2","U+24E3","U+24E4","U+24E5","U+24E6","U+24E7","U+24E8","U+24E9","U+2C30","U+2C31","U+2C32","U+2C33","U+2C34","U+2C35","U+2C36","U+2C37","U+2C38","U+2C39","U+2C3A","U+2C3B","U+2C3C","U+2C3D","U+2C3E","U+2C3F","U+2C40","U+2C41","U+2C42","U+2C43","U+2C44","U+2C45","U+2C46","U+2C47","U+2C48","U+2C49","U+2C4A","U+2C4B","U+2C4C","U+2C4D","U+2C4E","U+2C4F","U+2C50","U+2C51","U+2C52","U+2C53","U+2C54","U+2C55","U+2C56","U+2C57","U+2C58","U+2C59","U+2C5A","U+2C5B","U+2C5C","U+2C5D","U+2C5E","U+2C5F","U+2C61","U+026B","U+1D7D","U+027D","U+2C68","U+2C6A","U+2C6C","U+0251","U+0271","U+0250","U+0252","U+2C73","U+2C76","U+023F","U+0240","U+2C81","U+2C83","U+2C85","U+2C87","U+2C89","U+2C8B","U+2C8D","U+2C8F","U+2C91","U+2C93","U+2C95","U+2C97","U+2C99","U+2C9B","U+2C9D","U+2C9F","U+2CA1","U+2CA3","U+2CA5","U+2CA7","U+2CA9","U+2CAB","U+2CAD","U+2CAF","U+2CB1","U+2CB3","U+2CB5","U+2CB7","U+2CB9","U+2CBB","U+2CBD","U+2CBF","U+2CC1","U+2CC3","U+2CC5","U+2CC7","U+2CC9","U+2CCB","U+2CCD","U+2CCF","U+2CD1","U+2CD3","U+2CD5","U+2CD7","U+2CD9","U+2CDB","U+2CDD","U+2CDF","U+2CE1","U+2CE3","U+2CEC","U+2CEE","U+2CF3","U+A641","U+A643","U+A645","U+A647","U+A649","U+A64B","U+A64D","U+A64F","U+A651","U+A653","U+A655","U+A657","U+A659","U+A65B","U+A65D","U+A65F","U+A661","U+A663","U+A665","U+A667","U+A669","U+A66B","U+A66D","U+A681","U+A683","U+A685","U+A687","U+A689","U+A68B","U+A68D","U+A68F","U+A691","U+A693","U+A695","U+A697","U+A699","U+A69B","U+A723","U+A725","U+A727","U+A729","U+A72B","U+A72D","U+A72F","U+A733","U+A735","U+A737","U+A739","U+A73B","U+A73D","U+A73F","U+A741","U+A743","U+A745","U+A747","U+A749","U+A74B","U+A74D","U+A74F","U+A751","U+A753","U+A755","U+A757","U+A759","U+A75B","U+A75D","U+A75F","U+A761","U+A763","U+A765","U+A767","U+A769","U+A76B","U+A76D","U+A76F","U+A77A","U+A77C","U+1D79","U+A77F","U+A781","U+A783","U+A785","U+A787","U+A78C","U+0265","U+A791","U+A793","U+A797","U+A799","U+A79B","U+A79D","U+A79F","U+A7A1","U+A7A3","U+A7A5","U+A7A7","U+A7A9","U+0266","U+025C","U+0261","U+026C","U+026A","U+029E","U+0287","U+029D","U+AB53","U+A7B5","U+A7B7","U+A7B9","U+A7BB","U+A7BD","U+A7BF","U+A7C1","U+A7C3","U+A794","U+0282","U+1D8E","U+A7C8","U+A7CA","U+0264","U+A7CD","U+A7CF","U+A7D1","U+A7D3","U+A7D5","U+A7D7","U+A7D9","U+A7DB","U+019B","U+A7F6","U+FF41","U+FF42","U+FF43","U+FF44","U+FF45","U+FF46","U+FF47","U+FF48","U+FF49","U+FF4A","U+FF4B","U+FF4C","U+FF4D","U+FF4E","U+FF4F","U+FF50","U+FF51","U+FF52","U+FF53","U+FF54","U+FF55","U+FF56","U+FF57","U+FF58","U+FF59","U+FF5A"
  >>

\* the entries of a table of k code units an entry
Entries(table, k) ==
  [i \in 1..(Len(table) \div k) |-> [j \in 1..k |-> table[k * (i - 1) + j]]]

\* the function that takes each entry of from to the entry of to at the same
\* place
MapOf(from, to) ==
  [x \in {from[i] : i \in DOMAIN from} |->
     to[CHOOSE i \in DOMAIN from : from[i] = x]]

\* the uppercase form of every code unit, and of every pair of surrogates,
\* that has one
UpperForms ==
  MapOf(LowerChars \o TwoChars \o ThreeChars,
        Entries(UpperChars, 1) \o Entries(TwoForms, 2)
          \o Entries(ThreeForms, 3))
UpperPairForms == MapOf(Entries(PairChars, 2), Entries(PairForms, 2))

\* f[x] where f is defined, and other elsewhere
Lookup(f, x, other) == IF x \in DOMAIN f THEN f[x] ELSE other

\* the code units toUpperCase puts for the code unit c, taken by itself
UpperChar(c) == Lookup(UpperForms, c, <<c>>)

\* String.prototype.toUpperCase: the string is read character by character,
\* two surrogates that form a letter being one character
RECURSIVE toUpperCase(_)
toUpperCase(s) ==
  IF s = <<>> THEN <<>>
  ELSE IF Len(s) >= 2 /\ <<s[1], s[2]>> \in DOMAIN UpperPairForms
       THEN UpperPairForms[<<s[1], s[2]>>]
              \o toUpperCase(SubSeq(s, 3, Len(s)))
       ELSE UpperChar(Head(s)) \o toUpperCase(Tail(s))

\* the lowercase form of every code unit, and of every pair of surrogates,
\* that has one; that of U+0130 is two code units
LowerForms ==
  MapOf(CapitalChars \o <<"U+0130">>,
        Entries(SmallChars, 1) \o << <<"i", "U+0307">> >>)
LowerPairForms == MapOf(Entries(PairForms, 2), Entries(PairChars, 2))

\* the string with every letter in its lowercase form, whatever its place in
\* a word
RECURSIVE SmallLetters(_)
SmallLetters(s) ==
  IF s = <<>> THEN <<>>
  ELSE IF Len(s) >= 2 /\ <<s[1], s[2]>> \in DOMAIN LowerPairForms
       THEN LowerPairForms[<<s[1], s[2]>>]
              \o SmallLetters(SubSeq(s, 3, Len(s)))
       ELSE Lookup(LowerForms, Head(s), <<Head(s)>>)
              \o SmallLetters(Tail(s))

AsciiLetters ==
  {"a", "b", "c", "d", "e", "f", "g", "h", "i", "j", "k", "l", "m",
   "n", "o", "p", "q", "r", "s", "t", "u", "v", "w", "x", "y", "z",
   "A", "B", "C", "D", "E", "F", "G", "H", "I", "J", "K", "L", "M",
   "N", "O", "P", "Q", "R", "S", "T", "U", "V", "W", "X", "Y", "Z"}

\* Canonicalize of a regular expression with the /i flag and without the /u
\* flag: the uppercase form of the code unit, but the code unit itself when
\* that form is more than one code unit, or is an ASCII letter while the
\* code unit is outside ASCII
Canonicalize(c) ==
  LET u == UpperChar(c)
  IN IF Len(u) # 1 THEN c
     ELSE IF u[1] \in AsciiLetters /\ c \notin AsciiLetters THEN c
     ELSE u[1]

\* String.prototype.substring(0, n)
substring0(s, n) == SubSeq(s, 1, IF n < Len(s) THEN n ELSE Len(s))
\* String.prototype.startsWith
startsWith(s, prefix) ==
  Len(prefix) <= Len(s) /\ SubSeq(s, 1, Len(prefix)) = prefix

\* the literal lit occurs in s at position i (1-based), letters compared
\* without regard to case (the /i flag)
LitAt(s, i, lit) ==
  /\ i >= 1
  /\ i + Len(lit) - 1 <= Len(s)
  /\ \A k \in 1..Len(lit) : Canonicalize(s[i + k - 1]) = Canonicalize(lit[k])

\* the characters the dot of a regular expression refuses: line feed,
\* carriage return, line separator and paragraph separator
LineTerminators == {"\n", "\r", "U+2028", "U+2029"}

\* RegExp /a.?b/i .test(s): a, then at most one character that is no line
\* terminator, then b, anywhere in s
TestPattern(s, a, b) ==
  \E i \in 1..(Len(s) + 1) :
    /\ LitAt(s, i, a)
    /\ \/ LitAt(s, i + Len(a), b)
       \/ /\ i + Len(a) <= Len(s)
          /\ s[i + Len(a)] \notin LineTerminators
          /\ LitAt(s, i + Len(a) + 1, b)

----------------------------------------------------------------------------
(* String literals of the source *)

sOpen == <<"O","p","e","n">>
sWEP == <<"W","E","P">>
sWPA == <<"W","P","A">>
sWPA2 == <<"W","P","A","2">>
sWPA3 == <<"W","P","A","3">>
sWPAWPA2 == <<"W","P","A","/","W","P","A","2">>
sUnknown == <<"U","n","k","n","o","w","n">>
sHiddenNetwork == <<"H","i","d","d","e","n"," ","N","e","t","w","o","r","k">>

\* threatPatterns.suspiciousSSIDs, each /a.?b/i as <<a, b>>
suspiciousSSIDs ==
  << << <<"f","r","e","e">>, <<"w","i","f","i">> >>,
     << <<"g","u","e","s","t">>, <<"n","e","t","w","o","r","k">> >>,
     << <<"o","p","e","n">>, <<"w","i","f","i">> >>,
     << <<"w","i","f","i">>, <<"f","r","e","e">> >>,
     << <<"h","o","t","s","p","o","t">>, <<>> >>,
     << <<"a","n","d","r","o","i","d">>, <<"a","p">> >>,
     << <<"i","p","h","o","n","e">>, <<"h","o","t","s","p","o","t">> >>,
     << <<"m","o","b","i","l","e">>, <<"h","o","t","s","p","o","t">> >> >>

\* lastIndex[k]: the lastIndex property of the k-th pattern of
\* threatPatterns.suspiciousSSIDs, state shared by every call of the Engine
VARIABLE lastIndex

\* faulty variant of patternFlags: the patterns carry the global flag
patternFlagsGlobal == {"g", "i"}

\* the flags of the patterns of threatPatterns.suspiciousSSIDs
patternFlags == {"i"}

\* where a match of /a.?b/i that starts at position i of s ends (the index
\* after its last character, counted from 0 as lastIndex is), -1 when there
\* is none; the optional character is taken when the match allows it
MatchEndAt(s, i, a, b) ==
  IF ~LitAt(s, i, a) THEN -1
  ELSE IF /\ b # <<>>
          /\ i + Len(a) <= Len(s)
          /\ s[i + Len(a)] \notin LineTerminators
          /\ LitAt(s, i + Len(a) + 1, b)
       THEN i + Len(a) + Len(b)
       ELSE IF LitAt(s, i + Len(a), b) THEN i - 1 + Len(a) + Len(b)
       ELSE -1

\* the leftmost position at or after index from (counted from 0) where
\* /a.?b/i matches in s, 0 when it matches nowhere
FirstMatch(s, a, b, from) ==
  LET at == {i \in (from + 1)..(Len(s) + 1) : MatchEndAt(s, i, a, b) >= 0}
  IN IF at = {} THEN 0 ELSE CHOOSE i \in at : \A j \in at : i <= j

\* RegExp.prototype.test of the k-th pattern: a pattern with the global flag
\* searches from its lastIndex, any other from the start
RegExpTest(k, s, li) ==
  IF "g" \in patternFlags
  THEN FirstMatch(s, suspiciousSSIDs[k][1], suspiciousSSIDs[k][2], li[k]) # 0
  ELSE TestPattern(s, suspiciousSSIDs[k][1], suspiciousSSIDs[k][2])

\* the lastIndex of the k-th pattern after that test: the end of the match,
\* 0 after a failed search, and untouched without the global flag
lastIndexAfterTest(k, s, li) ==
  IF "g" \notin patternFlags THEN li[k]
  ELSE LET a == suspiciousSSIDs[k][1]
           b == suspiciousSSIDs[k][2]
           i == FirstMatch(s, a, b, li[k])
       IN IF i = 0 THEN 0 ELSE MatchEndAt(s, i, a, b)

\* threatPatterns.deauthPatterns
rapidSignalChanges == 20
highSeenCount == 100

\* suspiciousPrefixes of analyzeMACAddress
suspiciousPrefixes ==
  << <<"0","2",":","0","0",":","0","0">>,
     <<"A","A",":","B","B",":","C","C">>,
     <<"0","0",":","1","1",":","2","2">>,
     <<"1","2",":","3","4",":","5","6">> >>

----------------------------------------------------------------------------
(* ThreatDetector (services/threatDetection) *)

NULL == [type |-> "null"]

SetMax(S) == CHOOSE x \in S : \A y \in S : x >= y
SetMin(S) == CHOOSE x \in S : \A y \in S : x <= y

\* Array.prototype.filter, order kept
FilterSeq(seq, Keep(_)) == SelectSeq(seq, Keep)

\* Array.prototype.slice(-n)
SliceLast(seq, n) ==
  IF Len(seq) <= n THEN seq ELSE SubSeq(seq, Len(seq) - n + 1, Len(seq))

checkSuspiciousSSID(ssid) ==
  IF ssid = <<>> \/ ssid = sHiddenNetwork THEN NULL
  ELSE IF \E k \in 1..Len(suspiciousSSIDs) : RegExpTest(k, ssid, lastIndex)
       THEN [type |-> "suspicious_ssid", severity |-> "medium"]
       ELSE NULL

\* the lastIndex of every pattern after checkSuspiciousSSID(ssid): the
\* patterns are tested in order up to the first that matches
lastIndexAfter(li, ssid) ==
  IF ssid = <<>> \/ ssid = sHiddenNetwork \/ "g" \notin patternFlags THEN li
  ELSE LET hits == {k \in 1..Len(suspiciousSSIDs) : RegExpTest(k, ssid, li)}
           first == IF hits = {} THEN Len(suspiciousSSIDs)
                    ELSE CHOOSE k \in hits : \A j \in hits : k <= j
       IN [k \in 1..Len(suspiciousSSIDs) |->
             IF k <= first THEN lastIndexAfterTest(k, ssid, li) ELSE li[k]]

\* faulty variant of detectEvilTwin: records of the target's own bssid count
\* as similar networks
detectEvilTwinAnyBssid(network, allNetworks) ==
  LET Similar(n) == n.ssid = network.ssid
      similarNetworks == FilterSeq(allNetworks, Similar)
      hasWeakerSecurity ==
        \E k \in 1..Len(similarNetworks) :
          \/ (network.encType = sOpen /\ similarNetworks[k].encType # sOpen)
          \/ (network.encType = sWEP
              /\ similarNetworks[k].encType \in {sWPA, sWPA2, sWPA3})
  IN IF Len(similarNetworks) > 0 /\ (hasWeakerSecurity \/ network.encType = sOpen)
     THEN [type |-> "evil_twin", severity |-> "high"]
     ELSE NULL

\* faulty variant of detectEvilTwin: the placeholder ssid is left out, as
\* checkSuspiciousSSID leaves it out
detectEvilTwinSkipsHidden(network, allNetworks) ==
  LET Similar(n) == n.ssid = network.ssid /\ n.bssid # network.bssid
      similarNetworks == FilterSeq(allNetworks, Similar)
      hasWeakerSecurity ==
        \E k \in 1..Len(similarNetworks) :
          \/ (network.encType = sOpen /\ similarNetworks[k].encType # sOpen)
          \/ (network.encType = sWEP
              /\ similarNetworks[k].encType \in {sWPA, sWPA2, sWPA3})
  IN IF /\ network.ssid # sHiddenNetwork
        /\ Len(similarNetworks) > 0
        /\ (hasWeakerSecurity \/ network.encType = sOpen)
     THEN [type |-> "evil_twin", severity |-> "high"]
     ELSE NULL

detectEvilTwin(network, allNetworks) ==
  LET Similar(n) == n.ssid = network.ssid /\ n.bssid # network.bssid
      similarNetworks == FilterSeq(allNetworks, Similar)
      hasWeakerSecurity ==
        \E k \in 1..Len(similarNetworks) :
          \/ (network.encType = sOpen /\ similarNetworks[k].encType # sOpen)
          \/ (network.encType = sWEP
              /\ similarNetworks[k].encType \in {sWPA, sWPA2, sWPA3})
  IN IF Len(similarNetworks) > 0 /\ (hasWeakerSecurity \/ network.encType = sOpen)
     THEN [type |-> "evil_twin", severity |-> "high"]
     ELSE NULL

checkOpenNetwork(network) ==
  IF network.encType = sOpen
  THEN [type |-> "open_network", severity |-> "medium"]
  ELSE NULL

\* faulty variant of detectSignalAnomalies: the seen count is looked at first
detectSignalAnomaliesCountFirst(network, historicalData) ==
  IF Len(historicalData) < 5 THEN NULL
  ELSE LET last == SliceLast(historicalData, 10)
           recentSignals == {last[k].rssi : k \in 1..Len(last)}
           signalVariation == SetMax(recentSignals) - SetMin(recentSignals)
       IN IF network.seenCount > highSeenCount
          THEN [type |-> "high_frequency", severity |-> "medium"]
          ELSE IF signalVariation > rapidSignalChanges
               THEN [type |-> "signal_anomaly", severity |-> "medium"]
               ELSE NULL

detectSignalAnomalies(network, historicalData) ==
  IF Len(historicalData) < 5 THEN NULL
  ELSE LET last == SliceLast(historicalData, 10)
           recentSignals == {last[k].rssi : k \in 1..Len(last)}
           signalVariation == SetMax(recentSignals) - SetMin(recentSignals)
       IN IF signalVariation > rapidSignalChanges
          THEN [type |-> "signal_anomaly", severity |-> "medium"]
          ELSE IF network.seenCount > highSeenCount
               THEN [type |-> "high_frequency", severity |-> "medium"]
               ELSE NULL

\* faulty variant of detectChannelThreats: 15 networks are already too many
detectChannelThreatsAtLimit(network, allNetworks) ==
  LET SameChannel(n) == n.channel = network.channel
      sameChannelNetworks == FilterSeq(allNetworks, SameChannel)
  IN IF Len(sameChannelNetworks) >= 15
     THEN [type |-> "channel_congestion", severity |-> "low"]
     ELSE NULL

detectChannelThreats(network, allNetworks) ==
  LET SameChannel(n) == n.channel = network.channel
      sameChannelNetworks == FilterSeq(allNetworks, SameChannel)
  IN IF Len(sameChannelNetworks) > 15
     THEN [type |-> "channel_congestion", severity |-> "low"]
     ELSE NULL

analyzeMACAddress(bssid) ==
  IF bssid = <<>> THEN NULL
  ELSE LET macPrefix == toUpperCase(substring0(bssid, 8))
       IN IF \E k \in 1..Len(suspiciousPrefixes) :
               startsWith(macPrefix, suspiciousPrefixes[k])
          THEN [type |-> "suspicious_mac", severity |-> "low"]
          ELSE NULL

\* the tip pushed for one finding: a sequence of zero or one tips
TipFor(type) ==
  CASE type = "evil_twin" ->
         <<"Verify with network administrator which is the legitimate network">>
    [] type = "open_network" -> <<"Use VPN if connection is necessary">>
    [] type = "suspicious_ssid" -> <<"Verify network legitimacy with venue staff">>
    [] type = "signal_anomaly" -> <<"Monitor for deauth attacks or jamming attempts">>
    [] OTHER -> <<>>

RECURSIVE SpecificTips(_)
SpecificTips(threats) ==
  IF threats = <<>> THEN <<>>
  ELSE TipFor(Head(threats).type) \o SpecificTips(Tail(threats))

recommendations(riskLevel) ==
  CASE riskLevel = "critical" ->
         "IMMEDIATE ACTION REQUIRED: Block this network and investigate immediately. High probability of malicious activity."
    [] riskLevel = "high" ->
         "CAUTION: Avoid connecting to this network. Monitor closely and consider blocking."
    [] riskLevel = "medium" ->
         "WARNING: Exercise caution. Verify network legitimacy before connecting."
    [] riskLevel = "low" ->
         "INFO: Minor security concerns detected. Standard security practices recommended."

getRecommendation(riskLevel, threats) ==
  LET specific == SpecificTips(threats)
  IN [general |-> recommendations(riskLevel),
      specific |-> IF Len(specific) > 0 THEN specific
                   ELSE <<"Follow standard WiFi security practices">>]

\* faulty variant of Push: the score has a ceiling of 100
PushCapped(acc, finding, points) ==
  IF finding # NULL
  THEN [threats |-> Append(acc.threats, finding),
        harmScore |-> IF acc.harmScore + points > 100 THEN 100
                      ELSE acc.harmScore + points]
  ELSE acc

\* if (x) { threats.push(x); harmScore += points }
Push(acc, finding, points) ==
  IF finding # NULL
  THEN [threats |-> Append(acc.threats, finding), harmScore |-> acc.harmScore + points]
  ELSE acc

\* faulty variant of assessThreat: the thresholds are exclusive
assessThreatExclusive(network, allNetworks, historicalData) ==
  LET a0 == [threats |-> <<>>, harmScore |-> 0]
      a1 == Push(a0, checkSuspiciousSSID(network.ssid), 30)
      a2 == Push(a1, detectEvilTwin(network, allNetworks), 50)
      a3 == Push(a2, checkOpenNetwork(network), 25)
      a4 == Push(a3, detectSignalAnomalies(network, historicalData), 35)
      a5 == Push(a4, detectChannelThreats(network, allNetworks), 20)
      a6 == Push(a5, analyzeMACAddress(network.bssid), 15)
      harmScore == a6.harmScore
      riskLevel == IF harmScore > 70 THEN "critical"
                   ELSE IF harmScore > 40 THEN "high"
                   ELSE IF harmScore > 20 THEN "medium"
                   ELSE "low"
  IN [networkId |-> network.id,
      ssid |-> network.ssid,
      bssid |-> network.bssid,
      riskLevel |-> riskLevel,
      harmScore |-> harmScore,
      threats |-> a6.threats,
      recommendation |-> getRecommendation(riskLevel, a6.threats),
      isHarmful |-> harmScore > 40]

assessThreat(network, allNetworks, historicalData) ==
  LET a0 == [threats |-> <<>>, harmScore |-> 0]
      a1 == Push(a0, checkSuspiciousSSID(network.ssid), 30)
      a2 == Push(a1, detectEvilTwin(network, allNetworks), 50)
      a3 == Push(a2, checkOpenNetwork(network), 25)
      a4 == Push(a3, detectSignalAnomalies(network, historicalData), 35)
      a5 == Push(a4, detectChannelThreats(network, allNetworks), 20)
      a6 == Push(a5, analyzeMACAddress(network.bssid), 15)
      harmScore == a6.harmScore
      riskLevel == IF harmScore >= 70 THEN "critical"
                   ELSE IF harmScore >= 40 THEN "high"
                   ELSE IF harmScore >= 20 THEN "medium"
                   ELSE "low"
  IN [networkId |-> network.id,
      ssid |-> network.ssid,
      bssid |-> network.bssid,
      riskLevel |-> riskLevel,
      harmScore |-> harmScore,
      threats |-> a6.threats,
      recommendation |-> getRecommendation(riskLevel, a6.threats),
      isHarmful |-> harmScore >= 40]

----------------------------------------------------------------------------
(* Bounds and inputs *)

\* reports received in one behaviour, over all the batches
MaxReports == 3

\* the request handlers that can be in flight
Procs == {1, 2}

API_KEY == <<"k","e","y">>
ApiKeys == {Undef, Str(API_KEY), Str(<<"b","a","d">>)}

DefaultDeviceId == "ESP8266_001"
DeviceIds == {Undef}

bssidA == <<"a","a",":","b","b",":","c","c",":","0","1">>
bssidAUpper == <<"A","A",":","B","B",":","C","C",":","0","1">>
bssidB == <<"1","1",":","2","2",":","3","3",":","0","2">>
ssidNet == <<"N","e","t">>
ssidFree == <<"F","r","e","e","_","W","i","F","i">>

Report(ssid, bssid, rssi, channel, encType) ==
  [t |-> "object", ssid |-> ssid, bssid |-> bssid, rssi |-> rssi,
   channel |-> channel, encType |-> encType]

\* the elements a networks array is drawn from: well-formed reports (two
\* spellings of one bssid, a second bssid sharing an ssid), reports with no
\* bssid, with an empty one, with one that is no string, and null
Reports ==
  { Report(Str(ssidFree), Str(bssidA), -40, 6, Str(sOpen)),
    Report(Str(ssidNet), Str(bssidAUpper), -70, 6, Str(sWPA2)),
    Report(Str(ssidNet), Str(bssidB), -40, 1, Str(sOpen)),
    Report(Str(ssidNet), Undef, -40, 1, Str(sWPA2)),
    Report(Undef, Str(<<>>), -40, 1, Str(sWPA2)),
    Report(Undef, Num(5), -40, 1, Undef),
    Null }

Arr(a) == [t |-> "array", a |-> a]

\* the networks arrays of at most n elements
Batches(n) == UNION { [1..k -> Reports] : k \in 0..n }

\* a networks field that is absent, and one that is not an array
BadNetworks == {Undef, Str(ssidNet)}

StatusInputs == {"trusted", "unknown", "suspicious", "blocked"}

----------------------------------------------------------------------------
(* The Network collection (models/Network) and the store calls *)

\* $slice of the pushed history entry
historySlice == 20

\* the characters String.prototype.trim removes: white space (tab, vertical
\* tab, form feed, space, no-break space, the byte order mark and the space
\* separators of Unicode) and the line terminators
WhiteSpace ==
  {" ", "\t", "\n", "\r", "\f", "",
   "U+00A0", "U+1680", "U+2000", "U+2001", "U+2002", "U+2003", "U+2004",
   "U+2005", "U+2006", "U+2007", "U+2008", "U+2009", "U+200A", "U+2028",
   "U+2029", "U+202F", "U+205F", "U+3000", "U+FEFF"}

RECURSIVE TrimLeft(_)
TrimLeft(s) ==
  IF s # <<>> /\ Head(s) \in WhiteSpace THEN TrimLeft(Tail(s)) ELSE s
RECURSIVE TrimRight(_)
TrimRight(s) ==
  IF s # <<>> /\ s[Len(s)] \in WhiteSpace
  THEN TrimRight(SubSeq(s, 1, Len(s) - 1)) ELSE s
\* the trim setter of NetworkSchema.ssid
Trim(s) == TrimRight(TrimLeft(s))

\* the uppercase setter of NetworkSchema.bssid, applied to the filter too
CastBssid(s) == toUpperCase(s)

\* the cast of a pushed history element to the history subdocument schema:
\* the paths of the schema are kept, any other key of the object is dropped
CastHistory(e) == [rssi |-> e.rssi]

\* position of the first document with this bssid, 0 when there is none
FindByBssid(st, key) ==
  IF \E k \in 1..Len(st) : st[k].bssid = key
  THEN CHOOSE k \in 1..Len(st) :
         st[k].bssid = key /\ \A j \in 1..(k - 1) : st[j].bssid # key
  ELSE 0

\* the document an upsert inserts: the filter's bssid, the update applied to
\* it, the schema defaults for the paths the update leaves alone
InsertedDoc(st, filter, update) ==
  [id |-> Len(st) + 1,
   ssid |-> Trim(update.ssid),
   bssid |-> CastBssid(filter.bssid),
   rssi |-> update.rssi,
   channel |-> update.channel,
   encType |-> update.encType,
   seenCount |-> update.inc.seenCount,
   status |-> update.setOnInsert.status,
   history |-> <<CastHistory(update.push.history)>>,
   deviceId |-> update.deviceId,
   firstSeen |-> update.setOnInsert.firstSeen,
   lastSeen |-> update.lastSeen]

\* faulty variant of UpdatedDoc: $inc is left out of the update
UpdatedDocNoInc(doc, update) ==
  [doc EXCEPT !.ssid = Trim(update.ssid),
              !.rssi = update.rssi,
              !.channel = update.channel,
              !.encType = update.encType,
              !.history = Append(@, CastHistory(update.push.history)),
              !.deviceId = update.deviceId,
              !.lastSeen = update.lastSeen]

\* the document an update leaves: $set, $inc and $push applied
UpdatedDoc(doc, update) ==
  [doc EXCEPT !.ssid = Trim(update.ssid),
              !.rssi = update.rssi,
              !.channel = update.channel,
              !.encType = update.encType,
              !.seenCount = @ + update.inc.seenCount,
              !.history = Append(@, CastHistory(update.push.history)),
              !.deviceId = update.deviceId,
              !.lastSeen = update.lastSeen]

\* setDefaultsOnInsert: the defaults of the paths the update leaves alone go
\* to $setOnInsert; the default of firstSeen is Date.now, read when the query
\* is executed, after the handler has built the update
setDefaultsOnInsert(update, dateNow) ==
  [ssid |-> update.ssid,
   rssi |-> update.rssi,
   channel |-> update.channel,
   encType |-> update.encType,
   lastSeen |-> update.lastSeen,
   deviceId |-> update.deviceId,
   inc |-> update.inc,
   push |-> update.push,
   setOnInsert |-> [firstSeen |-> dateNow, status |-> "unknown"]]

\* Network.findOneAndUpdate(filter, update, {upsert, new, setDefaultsOnInsert}):
\* the store after it is applied, dateNow being what Date.now() read when
\* the call was made
findOneAndUpdate(st, filter, update, dateNow) ==
  LET k == FindByBssid(st, CastBssid(filter.bssid))
      cast == setDefaultsOnInsert(update, dateNow)
  IN IF k = 0 THEN Append(st, InsertedDoc(st, filter, cast))
     ELSE [st EXCEPT ![k] = UpdatedDoc(st[k], cast)]

\* the document the call returns (new: true)
UpsertedDoc(st, filter) ==
  st[FindByBssid(st, CastBssid(filter.bssid))]

\* Network.findByIdAndUpdate(id, { status }): the store after the call
findByIdAndUpdate(st, id, status) ==
  [k \in 1..Len(st) |-> IF st[k].id = id THEN [st[k] EXCEPT !.status = status]
                        ELSE st[k]]

----------------------------------------------------------------------------
(* State *)

VARIABLES
  store,             \* the Network collection, in insertion order
  nReports,          \* reports received so far, over all the batches
  pc,                \* pc[p]: where handler p of POST /scan stands
  networks,          \* networks[p]: req.body.networks
  deviceId,          \* deviceId[p]
  allNetworks,       \* allNetworks[p]: the result of Network.find({})
  pos,               \* pos[p]: index of networkData in networks
  network,           \* network[p]: the document findOneAndUpdate returned
  threatAssessment,  \* threatAssessment[p]
  results,           \* results[p]
  res,               \* res[p]: the response sent, NoResponse before
  now,               \* what the clock reads (Date.now())
  query,             \* query[p]: the call handler p has made to the store
  reply,             \* reply[p]: what the store answered to the call handler
                     \* p awaits, NoReply until the store has applied it
  stats              \* stats[p]: what GET /stats has read so far

vars ==
  <<store, nReports, pc, networks, deviceId, allNetworks, pos, network,
    threatAssessment, results, res, now, lastIndex, query, reply, stats>>

NoResponse == [status |-> 0]
NoDoc == [id |-> 0]
NoResults == [processed |-> 0, updated |-> 0, created |-> 0,
              threats |-> <<>>, errors |-> <<>>]
NoQuery == [at |-> "none"]
NoReply == [applied |-> FALSE]
NoStats == [total |-> -1]

\* observations of the record an initial store may already hold
InitSeen == 20

\* the last reading of the clock that is told apart from the one before
MaxNow == 2

\* what a read of the clock can give when the read before it gave t: the
\* same instant or the next
ClockReads(t) == IF t < MaxNow THEN {t, t + 1} ELSE {t}

\* the lastIndex of a pattern that has not been used
NoLastIndex == [k \in 1..Len(suspiciousSSIDs) |-> 0]

\* a store the program reaches by InitSeen reports of one access point
SeenStore ==
  << [id |-> 1, ssid |-> ssidNet, bssid |-> bssidAUpper, rssi |-> -70,
      channel |-> 6, encType |-> sWPA2, seenCount |-> InitSeen,
      status |-> "unknown",
      history |-> [k \in 1..InitSeen |-> [rssi |-> -70]],
      deviceId |-> DefaultDeviceId, firstSeen |-> 0, lastSeen |-> 0] >>

Init ==
  /\ store \in {<<>>, SeenStore}
  /\ nReports = 0
  /\ pc = [p \in Procs |-> "idle"]
  /\ networks = [p \in Procs |-> <<>>]
  /\ deviceId = [p \in Procs |-> DefaultDeviceId]
  /\ allNetworks = [p \in Procs |-> <<>>]
  /\ pos = [p \in Procs |-> 0]
  /\ network = [p \in Procs |-> NoDoc]
  /\ threatAssessment = [p \in Procs |-> NULL]
  /\ results = [p \in Procs |-> NoResults]
  /\ res = [p \in Procs |-> NoResponse]
  /\ now = MaxNow
  /\ lastIndex = NoLastIndex
  /\ query = [p \in Procs |-> NoQuery]
  /\ reply = [p \in Procs |-> NoReply]
  /\ stats = [p \in Procs |-> NoStats]

\* the handler has responded: its locals are gone
Finish(p, response) ==
  /\ pc' = [pc EXCEPT ![p] = "done"]
  /\ res' = [res EXCEPT ![p] = response]
  /\ networks' = [networks EXCEPT ![p] = <<>>]
  /\ deviceId' = [deviceId EXCEPT ![p] = DefaultDeviceId]
  /\ allNetworks' = [allNetworks EXCEPT ![p] = <<>>]
  /\ pos' = [pos EXCEPT ![p] = 0]
  /\ network' = [network EXCEPT ![p] = NoDoc]
  /\ threatAssessment' = [threatAssessment EXCEPT ![p] = NULL]
  /\ results' = [results EXCEPT ![p] = NoResults]
  /\ query' = [query EXCEPT ![p] = NoQuery]
  /\ reply' = [reply EXCEPT ![p] = NoReply]
  /\ stats' = [stats EXCEPT ![p] = NoStats]

\* the store applies the call handler p awaits and answers r; the handler
\* goes on when the answer reaches it, in a later step
Answers(p, r) ==
  /\ reply[p] = NoReply
  /\ reply' = [reply EXCEPT ![p] = r]
  /\ UNCHANGED <<nReports, now, lastIndex, pc, networks, deviceId, allNetworks,
                 pos, network, threatAssessment, results, res, query, stats>>

----------------------------------------------------------------------------
(* POST /scan *)

\* validateApiKey
validApiKey(apiKey) == ~Falsy(apiKey) /\ apiKey = Str(API_KEY)

\* !networks || !Array.isArray(networks)
validPayload(body) == ~Falsy(body.networks) /\ body.networks.t = "array"

\* faulty variant of ScanUnauthorized: 401 is answered and next() is called
\* all the same, so the handler runs
ScanUnauthorizedFallsThrough(p, apiKey) ==
  /\ pc[p] \in {"idle", "done"}
  /\ ~validApiKey(apiKey)
  /\ pc' = [pc EXCEPT ![p] = "find"]
  /\ res' = [res EXCEPT ![p] = [status |-> 401]]
  /\ networks' = [networks EXCEPT ![p] = <<>>]
  /\ results' = [results EXCEPT ![p] = NoResults]
  /\ UNCHANGED <<store, nReports, now, lastIndex, deviceId, allNetworks, pos,
                 network, threatAssessment, query, reply, stats>>

\* validateApiKey answers 401
ScanUnauthorized(p, apiKey) ==
  /\ pc[p] \in {"idle", "done"}
  /\ ~validApiKey(apiKey)
  /\ Finish(p, [status |-> 401])
  /\ UNCHANGED <<store, nReports, now, lastIndex>>

\* the payload check answers 400
ScanBadPayload(p, apiKey, body) ==
  /\ pc[p] \in {"idle", "done"}
  /\ validApiKey(apiKey)
  /\ ~validPayload(body)
  /\ Finish(p, [status |-> 400])
  /\ UNCHANGED <<store, nReports, now, lastIndex>>

\* the request is accepted: results is set up and Network.find({}) is called
ScanReceive(p, apiKey, body) ==
  /\ pc[p] \in {"idle", "done"}
  /\ validApiKey(apiKey)
  /\ validPayload(body)
  /\ nReports + Len(body.networks.a) <= MaxReports
  /\ nReports' = nReports + Len(body.networks.a)
  /\ pc' = [pc EXCEPT ![p] = "find"]
  /\ networks' = [networks EXCEPT ![p] = body.networks.a]
  /\ deviceId' = [deviceId EXCEPT ![p] =
                    IF body.deviceId = Undef THEN DefaultDeviceId
                    ELSE body.deviceId.v]
  /\ results' = [results EXCEPT ![p] = NoResults]
  /\ res' = [res EXCEPT ![p] = NoResponse]
  /\ UNCHANGED <<store, now, lastIndex, allNetworks, pos, network,
                 threatAssessment, query, reply, stats>>

scanFilter(nd) == [bssid |-> toUpperCase(nd.bssid.v)]

\* the update of the handler, lastSeen being the new Date() it reads
scanUpdate(nd, dev, date) ==
  [ssid |-> IF Falsy(nd.ssid) THEN sHiddenNetwork ELSE nd.ssid.v,
   rssi |-> nd.rssi,
   channel |-> nd.channel,
   encType |-> IF Falsy(nd.encType) THEN sUnknown ELSE nd.encType.v,
   lastSeen |-> date,
   deviceId |-> dev,
   inc |-> [seenCount |-> 1],
   push |-> [history |-> [rssi |-> nd.rssi, slice |-> -historySlice]]]

\* the element can be stored: it is an object whose bssid is a string that
\* is not empty
Storable(nd) ==
  /\ nd # Null
  /\ ~Falsy(nd.bssid)
  /\ nd.bssid.t = "string"

\* the handler comes to element n of nets. When the element can be stored
\* the handler builds the update, lastSeen being the new Date() it reads,
\* and calls findOneAndUpdate; it then awaits the call. The query is executed
\* and the store applies it in later steps.
Arrive(p, nets, dev, n) ==
  /\ reply' = [reply EXCEPT ![p] = NoReply]
  /\ IF n <= Len(nets) /\ Storable(nets[n])
     THEN \E date \in ClockReads(now) :
            /\ query' = [query EXCEPT ![p] =
                           [at |-> "built",
                            filter |-> scanFilter(nets[n]),
                            update |-> scanUpdate(nets[n], dev, date)]]
            /\ now' = date
     ELSE /\ query' = [query EXCEPT ![p] = NoQuery]
          /\ now' = now

\* the store applies Network.find({})
StoreFind(p) ==
  /\ pc[p] = "find"
  /\ Answers(p, [applied |-> TRUE, docs |-> store])
  /\ UNCHANGED store

\* const allNetworks = await Network.find({}) resolves; the loop comes to
\* the first element
ScanFind(p) ==
  /\ pc[p] = "find"
  /\ reply[p].applied
  /\ pc' = [pc EXCEPT ![p] = "loop"]
  /\ allNetworks' = [allNetworks EXCEPT ![p] = reply[p].docs]
  /\ pos' = [pos EXCEPT ![p] = 1]
  /\ Arrive(p, networks[p], deviceId[p], 1)
  /\ UNCHANGED <<store, nReports, lastIndex, networks, deviceId, network,
                 threatAssessment, results, res, stats>>

\* Network.find rejects, whether the store has applied it or not: the outer
\* catch
ScanFindFails(p) ==
  /\ pc[p] = "find"
  /\ Finish(p, [status |-> 500])
  /\ UNCHANGED <<store, nReports, now, lastIndex>>

InLoop(p) == pc[p] = "loop" /\ pos[p] <= Len(networks[p])
networkData(p) == networks[p][pos[p]]

\* the string pushed to results.errors: its fixed text, the value
\* interpolated after it (ssid or bssid) and the error.message that follows
ErrorText(text, value, message) ==
  [text |-> text, value |-> value, message |-> message]

\* the message of the error a rejected store call throws
StoreError == "store unavailable"

\* the message of the error the unique index of bssid throws
DuplicateKeyError == "E11000 duplicate key error"

\* the call handler p awaits has been rejected by the store
Rejected(p) == reply[p] # NoReply /\ ~reply[p].applied

\* faulty variant of ItemError: the loop does not move on to the next element
ItemErrorRetries(p, error) ==
  /\ results' = [results EXCEPT ![p].errors = Append(@, error)]
  /\ pc' = [pc EXCEPT ![p] = "loop"]
  /\ network' = [network EXCEPT ![p] = NoDoc]
  /\ threatAssessment' = [threatAssessment EXCEPT ![p] = NULL]
  /\ Arrive(p, networks[p], deviceId[p], pos[p])
  /\ UNCHANGED <<nReports, networks, deviceId, allNetworks, pos, res, stats>>

\* results.errors.push(...); the loop goes on with the next element
ItemError(p, error) ==
  /\ results' = [results EXCEPT ![p].errors = Append(@, error)]
  /\ pos' = [pos EXCEPT ![p] = @ + 1]
  /\ pc' = [pc EXCEPT ![p] = "loop"]
  /\ network' = [network EXCEPT ![p] = NoDoc]
  /\ threatAssessment' = [threatAssessment EXCEPT ![p] = NULL]
  /\ Arrive(p, networks[p], deviceId[p], pos[p] + 1)
  /\ UNCHANGED <<nReports, networks, deviceId, allNetworks, res, stats>>

\* the element is null: the destructuring throws, and so does the per-item
\* catch when it reads networkData.bssid; the outer catch answers
ScanItemNull(p) ==
  /\ InLoop(p)
  /\ networkData(p) = Null
  /\ Finish(p, [status |-> 500])
  /\ UNCHANGED <<store, nReports, now, lastIndex>>

\* if (!bssid)
ScanItemMissingBssid(p) ==
  /\ InLoop(p)
  /\ networkData(p) # Null
  /\ Falsy(networkData(p).bssid)
  /\ ItemError(p, ErrorText("Missing BSSID for network", networkData(p).ssid, ""))
  /\ UNCHANGED <<store, lastIndex>>

\* bssid.toUpperCase is not a function: the per-item catch
ScanItemBssidNotString(p) ==
  /\ InLoop(p)
  /\ networkData(p) # Null
  /\ ~Falsy(networkData(p).bssid)
  /\ networkData(p).bssid.t # "string"
  /\ ItemError(p, ErrorText("Error processing", networkData(p).bssid,
                           "bssid.toUpperCase is not a function"))
  /\ UNCHANGED <<store, lastIndex>>

\* the handler awaits the findOneAndUpdate of the element at pos
CanUpsert(p) == InLoop(p) /\ Storable(networkData(p))

\* faulty variant of Counted: the report is listed in threats whether its
\* assessment has findings or not
CountedEveryReport(r, net, ta) ==
  [r EXCEPT
     !.threats = Append(@, [ssid |-> net.ssid, bssid |-> net.bssid,
                            riskLevel |-> ta.riskLevel,
                            harmScore |-> ta.harmScore,
                            threats |-> ta.threats,
                            recommendation |-> ta.recommendation,
                            isHarmful |-> ta.isHarmful]),
     !.created = IF net.seenCount = 1 THEN @ + 1 ELSE @,
     !.updated = IF net.seenCount = 1 THEN @ ELSE @ + 1,
     !.processed = @ + 1]

\* what results is after the threat and the counters of one report are stored
Counted(r, net, ta) ==
  [r EXCEPT
     !.threats = IF Len(ta.threats) > 0
                 THEN Append(@, [ssid |-> net.ssid, bssid |-> net.bssid,
                                 riskLevel |-> ta.riskLevel,
                                 harmScore |-> ta.harmScore,
                                 threats |-> ta.threats,
                                 recommendation |-> ta.recommendation,
                                 isHarmful |-> ta.isHarmful])
                 ELSE @,
     !.created = IF net.seenCount = 1 THEN @ + 1 ELSE @,
     !.updated = IF net.seenCount = 1 THEN @ ELSE @ + 1,
     !.processed = @ + 1]

\* the report is stored and counted; the loop goes on with the next element
ItemDone(p, net, ta) ==
  /\ results' = [results EXCEPT ![p] = Counted(@, net, ta)]
  /\ pos' = [pos EXCEPT ![p] = @ + 1]
  /\ pc' = [pc EXCEPT ![p] = "loop"]
  /\ network' = [network EXCEPT ![p] = NoDoc]
  /\ threatAssessment' = [threatAssessment EXCEPT ![p] = NULL]
  /\ Arrive(p, networks[p], deviceId[p], pos[p] + 1)
  /\ UNCHANGED <<nReports, networks, deviceId, allNetworks, res, stats>>

\* faulty variant of autoSuspicious: the status is not looked at
autoSuspiciousAnyStatus(net, ta) == ta.isHarmful

\* faulty variant of autoSuspicious: the status write is never asked for
autoSuspiciousNever(net, ta) == FALSE

\* threatAssessment.isHarmful && network.status === 'unknown'
autoSuspicious(net, ta) == ta.isHarmful /\ net.status = "unknown"

\* the query the handler awaits is executed: the update is cast, the
\* defaults of setDefaultsOnInsert read Date.now(), and the call goes to the
\* store
ExecUpsert(p) ==
  /\ CanUpsert(p)
  /\ query[p].at = "built"
  /\ \E dateNow \in ClockReads(now) :
       /\ query' = [query EXCEPT ![p] =
                      [at |-> "sent", filter |-> @.filter, update |-> @.update,
                       dateNow |-> dateNow]]
       /\ now' = dateNow
  /\ UNCHANGED <<store, nReports, lastIndex, pc, networks, deviceId,
                 allNetworks, pos, network, threatAssessment, results, res,
                 reply, stats>>

\* the store looks for the record of the call and finds none: it will
\* insert one. Another handler's call may be applied before it does.
StoreUpsertMiss(p) ==
  /\ CanUpsert(p)
  /\ query[p].at = "sent"
  /\ reply[p] = NoReply
  /\ FindByBssid(store, CastBssid(query[p].filter.bssid)) = 0
  /\ query' = [query EXCEPT ![p].at = "missed"]
  /\ UNCHANGED <<store, nReports, now, lastIndex, pc, networks, deviceId,
                 allNetworks, pos, network, threatAssessment, results, res,
                 reply, stats>>

\* the store applies the findOneAndUpdate the handler awaits; the answer is
\* the document after the update. A call that found no record and comes to
\* insert when there is one is applied as an update by a store that tries
\* the upsert again.
StoreUpsert(p) ==
  /\ CanUpsert(p)
  /\ query[p].at \in {"sent", "missed"}
  /\ LET st == findOneAndUpdate(store, query[p].filter, query[p].update,
                                query[p].dateNow)
     IN /\ store' = st
        /\ Answers(p, [applied |-> TRUE, doc |-> UpsertedDoc(st, query[p].filter)])

\* the call found no record and comes to insert when another call has
\* inserted one: the unique index of bssid rejects the insert, and a store
\* that does not try the upsert again rejects the call
StoreUpsertDuplicateKey(p) ==
  /\ CanUpsert(p)
  /\ query[p].at = "missed"
  /\ FindByBssid(store, CastBssid(query[p].filter.bssid)) # 0
  /\ Answers(p, [applied |-> FALSE, error |-> DuplicateKeyError])
  /\ UNCHANGED store

\* await Network.findOneAndUpdate(filter, update, options) resolves, then
\* the assessment; the handler next calls the status write and awaits it,
\* or goes on with the next element
ScanUpsert(p) ==
  /\ CanUpsert(p)
  /\ reply[p].applied
  /\ LET net == reply[p].doc
         ta == assessThreat(net, allNetworks[p], net.history)
     IN /\ lastIndex' = lastIndexAfter(lastIndex, net.ssid)
        /\ IF autoSuspicious(net, ta)
           THEN /\ pc' = [pc EXCEPT ![p] = "status"]
                /\ network' = [network EXCEPT ![p] = net]
                /\ threatAssessment' = [threatAssessment EXCEPT ![p] = ta]
                /\ reply' = [reply EXCEPT ![p] = NoReply]
                /\ UNCHANGED <<nReports, networks, deviceId, allNetworks, pos,
                               results, res, now, query, stats>>
           ELSE ItemDone(p, net, ta)
  /\ UNCHANGED store

\* findOneAndUpdate rejects, whether the store has applied it or not: the
\* per-item catch
ScanUpsertFails(p) ==
  /\ CanUpsert(p)
  /\ ItemError(p, ErrorText("Error processing", networkData(p).bssid,
                           IF Rejected(p) THEN reply[p].error ELSE StoreError))
  /\ UNCHANGED <<store, lastIndex>>

\* the store applies findByIdAndUpdate(network._id, { status: 'suspicious' })
StoreStatusWrite(p) ==
  /\ pc[p] = "status"
  /\ store' = findByIdAndUpdate(store, network[p].id, "suspicious")
  /\ Answers(p, [applied |-> TRUE])

\* await Network.findByIdAndUpdate(network._id, { status: 'suspicious' })
\* resolves; the report is counted
ScanStatusWrite(p) ==
  /\ pc[p] = "status"
  /\ reply[p].applied
  /\ ItemDone(p, network[p], threatAssessment[p])
  /\ UNCHANGED <<store, lastIndex>>

\* findByIdAndUpdate rejects, whether the store has applied it or not: the
\* per-item catch
ScanStatusWriteFails(p) ==
  /\ pc[p] = "status"
  /\ ItemError(p, ErrorText("Error processing", networkData(p).bssid,
                           StoreError))
  /\ UNCHANGED <<store, lastIndex>>

CountRisk(threats, level) ==
  Cardinality({k \in 1..Len(threats) : threats[k].riskLevel = level})

scanResponse(r) ==
  [status |-> 200,
   success |-> TRUE,
   securitySummary |->
     [threatsDetected |-> Len(r.threats),
      criticalThreats |-> CountRisk(r.threats, "critical"),
      highThreats |-> CountRisk(r.threats, "high"),
      harmfulNetworks |->
        Cardinality({k \in 1..Len(r.threats) : r.threats[k].isHarmful})],
   processed |-> r.processed,
   updated |-> r.updated,
   created |-> r.created,
   threats |-> r.threats,
   errors |-> r.errors]

\* the loop is over: res.json({ success: true, ... })
ScanRespond(p) ==
  /\ pc[p] = "loop"
  /\ pos[p] > Len(networks[p])
  /\ Finish(p, scanResponse(results[p]))
  /\ UNCHANGED <<store, nReports, now, lastIndex>>

----------------------------------------------------------------------------
(* POST /scan of the router that stores the reports and assesses nothing *)

PlainResults == [processed |-> 0, updated |-> 0, created |-> 0, errors |-> <<>>]

\* the request is accepted: results is set up, and the loop comes to the
\* first element
PlainReceive(p, apiKey, body) ==
  /\ pc[p] \in {"idle", "done"}
  /\ validApiKey(apiKey)
  /\ validPayload(body)
  /\ nReports + Len(body.networks.a) <= MaxReports
  /\ nReports' = nReports + Len(body.networks.a)
  /\ pc' = [pc EXCEPT ![p] = "loop"]
  /\ networks' = [networks EXCEPT ![p] = body.networks.a]
  /\ deviceId' = [deviceId EXCEPT ![p] =
                    IF body.deviceId = Undef THEN DefaultDeviceId
                    ELSE body.deviceId.v]
  /\ results' = [results EXCEPT ![p] = PlainResults]
  /\ res' = [res EXCEPT ![p] = NoResponse]
  /\ pos' = [pos EXCEPT ![p] = 1]
  /\ Arrive(p, body.networks.a,
            IF body.deviceId = Undef THEN DefaultDeviceId ELSE body.deviceId.v, 1)
  /\ UNCHANGED <<store, lastIndex, allNetworks, network, threatAssessment,
                 stats>>

\* result.seenCount === 1 ? created++ : updated++; processed++
PlainCounted(r, net) ==
  [r EXCEPT
     !.created = IF net.seenCount = 1 THEN @ + 1 ELSE @,
     !.updated = IF net.seenCount = 1 THEN @ ELSE @ + 1,
     !.processed = @ + 1]

\* await Network.findOneAndUpdate(filter, update, options) resolves; the
\* report is counted and the loop goes on
PlainUpsert(p) ==
  /\ CanUpsert(p)
  /\ reply[p].applied
  /\ results' = [results EXCEPT ![p] = PlainCounted(@, reply[p].doc)]
  /\ pos' = [pos EXCEPT ![p] = @ + 1]
  /\ Arrive(p, networks[p], deviceId[p], pos[p] + 1)
  /\ UNCHANGED <<store, nReports, lastIndex, pc, networks, deviceId,
                 allNetworks, network, threatAssessment, res, stats>>

plainResponse(r) ==
  [status |-> 200,
   success |-> TRUE,
   processed |-> r.processed,
   updated |-> r.updated,
   created |-> r.created,
   errors |-> r.errors]

\* the loop is over: res.json({ success: true, ... })
PlainRespond(p) ==
  /\ pc[p] = "loop"
  /\ pos[p] > Len(networks[p])
  /\ Finish(p, plainResponse(results[p]))
  /\ UNCHANGED <<store, nReports, now, lastIndex>>

----------------------------------------------------------------------------
(* PATCH /networks/:id/status *)

validStatus(status) == status \in {"trusted", "unknown", "suspicious"}

\* the status is valid and the document exists: findByIdAndUpdate(id, { status })
PatchStatus(id, status) ==
  /\ validStatus(status)
  /\ \E k \in 1..Len(store) : store[k].id = id
  /\ store' = findByIdAndUpdate(store, id, status)
  /\ UNCHANGED <<nReports, now, lastIndex, pc, networks, deviceId, allNetworks,
                 pos, network, threatAssessment, results, res, query, reply, stats>>

\* 400 for an invalid status, 404 for an unknown id, 500 when the store call
\* rejects: the store is left as it is
PatchStatusRejected ==
  UNCHANGED vars

----------------------------------------------------------------------------
(* Specifications *)

\* ids a PATCH request may name: every stored one and one that is not
PatchIds == 1..(Len(store) + 1)

ScanStep(p) ==
  \/ \E apiKey \in ApiKeys : ScanUnauthorized(p, apiKey)
  \/ \E n \in BadNetworks, d \in DeviceIds :
       ScanBadPayload(p, Str(API_KEY), [networks |-> n, deviceId |-> d])
  \/ \E b \in Batches(MaxReports - nReports), d \in DeviceIds :
       ScanReceive(p, Str(API_KEY), [networks |-> Arr(b), deviceId |-> d])
  \/ StoreFind(p)
  \/ ScanFind(p)
  \/ ScanFindFails(p)
  \/ ScanItemNull(p)
  \/ ScanItemMissingBssid(p)
  \/ ScanItemBssidNotString(p)
  \/ ExecUpsert(p)
  \/ StoreUpsert(p)
  \/ ScanUpsert(p)
  \/ ScanUpsertFails(p)
  \/ StoreStatusWrite(p)
  \/ ScanStatusWrite(p)
  \/ ScanStatusWriteFails(p)
  \/ ScanRespond(p)

Patch ==
  \/ \E id \in PatchIds, status \in StatusInputs : PatchStatus(id, status)
  \/ PatchStatusRejected

\* one POST /scan at a time, PATCH requests at any moment of it. No other
\* call inserts a record between the moment the store finds none for an
\* upsert and the moment it inserts, so the two are the one step StoreUpsert.
Next == ScanStep(1) \/ Patch

Spec == Init /\ [][Next]_vars

\* handler p goes on: the call it awaits has been applied and resolves, or
\* it rejects, and the handler moves to another await, to another element,
\* or to its response
HandlerAdvances(p) ==
  /\ pc[p] \in {"find", "loop", "status"}
  /\ \E c \in {"loop", "status", "done"}, n \in 0..(MaxReports + 1) :
       /\ <<c, n>> # <<pc[p], pos[p]>>
       /\ pc' = [pc EXCEPT ![p] = c]
       /\ pos' = [pos EXCEPT ![p] = n]

\* POST /scan of the router that assesses nothing
PlainStep(p) ==
  \/ \E apiKey \in ApiKeys : ScanUnauthorized(p, apiKey)
  \/ \E n \in BadNetworks, d \in DeviceIds :
       ScanBadPayload(p, Str(API_KEY), [networks |-> n, deviceId |-> d])
  \/ \E b \in Batches(MaxReports - nReports), d \in DeviceIds :
       PlainReceive(p, Str(API_KEY), [networks |-> Arr(b), deviceId |-> d])
  \/ ScanItemNull(p)
  \/ ScanItemMissingBssid(p)
  \/ ScanItemBssidNotString(p)
  \/ ExecUpsert(p)
  \/ StoreUpsert(p)
  \/ PlainUpsert(p)
  \/ ScanUpsertFails(p)
  \/ PlainRespond(p)


\* every call the handler awaits is answered and settles
SpecLive == Init /\ [][Next]_vars /\ WF_<<pc, pos>>(HandlerAdvances(1))

\* the start of a run in which the clock moves on between two reads
InitTime ==
  /\ store \in {<<>>, SeenStore}
  /\ nReports = 0
  /\ pc = [p \in Procs |-> "idle"]
  /\ networks = [p \in Procs |-> <<>>]
  /\ deviceId = [p \in Procs |-> DefaultDeviceId]
  /\ allNetworks = [p \in Procs |-> <<>>]
  /\ pos = [p \in Procs |-> 0]
  /\ network = [p \in Procs |-> NoDoc]
  /\ threatAssessment = [p \in Procs |-> NULL]
  /\ results = [p \in Procs |-> NoResults]
  /\ res = [p \in Procs |-> NoResponse]
  /\ now = 0
  /\ lastIndex = NoLastIndex
  /\ query = [p \in Procs |-> NoQuery]
  /\ reply = [p \in Procs |-> NoReply]
  /\ stats = [p \in Procs |-> NoStats]

\* reports as the sensor forms them: getEncryptionType gives "WPA/WPA2" for
\* ENC_TYPE_AUTO; and well-formed reports that carry no encType or no ssid
SensorReports ==
  { Report(Str(ssidNet), Str(bssidAUpper), -70, 6, Str(sWPAWPA2)),
    Report(Str(ssidNet), Str(bssidB), -40, 1, Undef),
    Report(Undef, Str(bssidA), -40, 6, Str(sOpen)) }

SensorBatches(n) == UNION { [1..k -> SensorReports] : k \in 0..n }

\* batches of sensor reports, each store call resolving or rejecting
NextSensor ==
  \/ \E b \in SensorBatches(MaxReports - nReports) :
       ScanReceive(1, Str(API_KEY), [networks |-> Arr(b), deviceId |-> Undef])
  \/ StoreFind(1)
  \/ ScanFind(1)
  \/ ScanFindFails(1)
  \/ ExecUpsert(1)
  \/ StoreUpsert(1)
  \/ ScanUpsert(1)
  \/ ScanUpsertFails(1)
  \/ StoreStatusWrite(1)
  \/ ScanStatusWrite(1)
  \/ ScanStatusWriteFails(1)
  \/ ScanRespond(1)

SpecSensor == Init /\ [][NextSensor]_vars

\* two sensors, each sending one batch of one report of the same access
\* point; sensor p reads a signal strength of its own
ConcRssi(p) == IF p = 1 THEN {-40, -45} ELSE {-55, -60}

ConcDeviceId(p) == IF p = 1 THEN Undef ELSE Str("ESP8266_002")

ConcReports(p) ==
  { Report(Str(ssidNet), Str(b), r, 6, Str(e)) :
      b \in {bssidA, bssidAUpper}, r \in ConcRssi(p), e \in {sWPA2, sOpen} }

ConcReceive(p) ==
  /\ pc[p] = "idle"
  /\ \E nd \in ConcReports(p) :
       ScanReceive(p, Str(API_KEY),
                   [networks |-> Arr(<<nd>>), deviceId |-> ConcDeviceId(p)])

\* the two handlers interleaved at their awaits, each store call resolving
\* or rejecting. With two handlers at work a record can be inserted between
\* the moment the store finds none for a call and the moment it inserts:
\* the store then applies the call as an update or rejects it.
ConcStep(p) ==
  \/ ConcReceive(p)
  \/ StoreFind(p)
  \/ ScanFind(p)
  \/ ScanFindFails(p)
  \/ ExecUpsert(p)
  \/ StoreUpsertMiss(p)
  \/ StoreUpsert(p)
  \/ StoreUpsertDuplicateKey(p)
  \/ ScanUpsert(p)
  \/ ScanUpsertFails(p)
  \/ StoreStatusWrite(p)
  \/ ScanStatusWrite(p)
  \/ ScanStatusWriteFails(p)
  \/ ScanRespond(p)

NextConc == \E p \in Procs : ConcStep(p)

SpecConc == Init /\ [][NextConc]_vars

\* the two handlers interleaved at their awaits, the clock moving on between
\* two reads
SpecTime == InitTime /\ [][NextConc]_vars

\* spellings of a bssid that differ in the case of their letters, letters
\* outside ASCII among them: the sharp s and its capital, e acute and its
\* capital, Cyrillic a and its capital
CaseBssids ==
  {bssidA, bssidAUpper, <<"U+00DF">>, <<"U+1E9E">>, <<"U+00E9">>, <<"U+00C9">>,
   <<"U+0430">>, <<"U+0410">>}

CaseReports ==
  {Report(Str(ssidFree), Str(b), -40, 6, Str(sOpen)) : b \in CaseBssids}

CaseBatches(n) == UNION { [1..k -> CaseReports] : k \in 0..n }

\* batches of reports of these spellings, each store call resolving or
\* rejecting
NextCase ==
  \/ \E b \in CaseBatches(MaxReports - nReports) :
       ScanReceive(1, Str(API_KEY), [networks |-> Arr(b), deviceId |-> Undef])
  \/ StoreFind(1)
  \/ ScanFind(1)
  \/ ScanFindFails(1)
  \/ ExecUpsert(1)
  \/ StoreUpsert(1)
  \/ ScanUpsert(1)
  \/ ScanUpsertFails(1)
  \/ StoreStatusWrite(1)
  \/ ScanStatusWrite(1)
  \/ ScanStatusWriteFails(1)
  \/ ScanRespond(1)

SpecCase == Init /\ [][NextCase]_vars

----------------------------------------------------------------------------
(* The Engine called on any target and any record set *)

\* siblings in a record set handed to the Engine
MaxSiblings == 2

\* sameChannelNetworks.length > 15
channelLimit == 15

EncTypes == {sOpen, sWEP, sWPA, sWPA2, sWPA3, sUnknown}

\* a document of the collection
Doc(id, ssid, bssid, encType, channel, seenCount, history, status) ==
  [id |-> id, ssid |-> ssid, bssid |-> bssid, rssi |-> -60,
   channel |-> channel, encType |-> encType, seenCount |-> seenCount,
   status |-> status, history |-> history, deviceId |-> DefaultDeviceId,
   firstSeen |-> 0, lastSeen |-> 0]

\* n history entries of one rssi
Flat(n, rssi) == [k \in 1..n |-> [rssi |-> rssi]]

\* a history of five entries whose largest and smallest rssi are d apart
Spread(d) ==
  <<[rssi |-> -70], [rssi |-> -70], [rssi |-> -70 + d], [rssi |-> -70],
    [rssi |-> -70]>>

\* the seenCount and the history a target is assessed with: below five
\* entries, at and above the variation threshold, a variation older than the
\* last ten entries, at and above the count threshold
Observations ==
  { [seenCount |-> 1, history |-> Flat(1, -40)],
    [seenCount |-> highSeenCount + 1,
     history |-> <<[rssi |-> -70], [rssi |-> -40], [rssi |-> -70], [rssi |-> -40]>>],
    [seenCount |-> 5, history |-> Flat(5, -70)],
    [seenCount |-> 5, history |-> Spread(rapidSignalChanges)],
    [seenCount |-> 5, history |-> Spread(rapidSignalChanges + 1)],
    [seenCount |-> 12, history |-> Flat(2, -20) \o Flat(10, -70)],
    [seenCount |-> highSeenCount, history |-> Flat(5, -70)],
    [seenCount |-> highSeenCount + 1, history |-> Flat(5, -70)],
    [seenCount |-> highSeenCount + 1, history |-> Spread(rapidSignalChanges + 1)] }

\* records of an access point reported without ssid: the intake stores the
\* placeholder 'Hidden Network'
HiddenTargets ==
  { Doc(1, sHiddenNetwork, b, e, 6, 1, Flat(1, -40), "unknown") :
      b \in {bssidAUpper, bssidB}, e \in {sOpen, sWPA2} }

HiddenSiblings ==
  { Doc(2, sHiddenNetwork, b, sWPA2, 6, 1, Flat(1, -60), "unknown") :
      b \in {bssidAUpper, bssidB} }

EngineTargets ==
  { Doc(1, s, b, e, 6, o.seenCount, o.history, "unknown") :
      s \in {ssidNet, ssidFree}, b \in {bssidAUpper, bssidB}, e \in EncTypes,
      o \in Observations }
    \cup HiddenTargets

\* the other records of a set: they carry the ssid of the target or another
\* one, and the bssid of the target or another one
Siblings ==
  { Doc(2, s, b, e, 6, 1, Flat(1, -60), "unknown") :
      s \in {ssidNet, ssidFree}, b \in {bssidAUpper, bssidB}, e \in EncTypes }
    \cup HiddenSiblings

HexDigits ==
  <<"0","1","2","3","4","5","6","7","8","9","A","B","C","D","E","F">>

crowdBssid(k) ==
  <<"1","0",":","0","0",":","0","0",":",
    HexDigits[(k \div 16) + 1], HexDigits[(k % 16) + 1]>>

\* n access points on one channel
Crowd(n, channel) ==
  [k \in 1..n |-> Doc(k, ssidNet, crowdBssid(k), sWPA2, channel, 1,
                      Flat(1, -60), "unknown")]

EngineSets ==
  UNION { [1..n -> Siblings] : n \in 0..MaxSiblings }
    \cup {Crowd(channelLimit, 6), Crowd(channelLimit + 1, 6),
          Crowd(channelLimit + 1, 1)}

InitEngine ==
  /\ store = <<>>
  /\ nReports = 0
  /\ pc = [p \in Procs |-> IF p = 1 THEN "assess" ELSE "idle"]
  /\ networks = [p \in Procs |-> <<>>]
  /\ deviceId = [p \in Procs |-> DefaultDeviceId]
  /\ \E t \in EngineTargets, S \in EngineSets :
       /\ network = [p \in Procs |-> IF p = 1 THEN t ELSE NoDoc]
       /\ allNetworks = [p \in Procs |-> IF p = 1 THEN S ELSE <<>>]
  /\ pos = [p \in Procs |-> 0]
  /\ threatAssessment = [p \in Procs |-> NULL]
  /\ results = [p \in Procs |-> NoResults]
  /\ res = [p \in Procs |-> NoResponse]
  /\ now = MaxNow
  /\ lastIndex = NoLastIndex
  /\ query = [p \in Procs |-> NoQuery]
  /\ reply = [p \in Procs |-> NoReply]
  /\ stats = [p \in Procs |-> NoStats]

\* ThreatDetector.assessThreat(network, allNetworks, network.history || [])
Assess(p) ==
  /\ pc[p] = "assess"
  /\ threatAssessment' =
       [threatAssessment EXCEPT ![p] =
          assessThreat(network[p], allNetworks[p], network[p].history)]
  /\ pc' = [pc EXCEPT ![p] = "assessed"]
  /\ lastIndex' = lastIndexAfter(lastIndex, network[p].ssid)
  /\ UNCHANGED <<store, nReports, now, networks, deviceId, allNetworks, pos,
                 network, results, res, query, reply, stats>>

\* assessThreat called again with the same arguments
Reassess(p) ==
  /\ pc[p] \in {"assessed", "repeated"}
  /\ threatAssessment' =
       [threatAssessment EXCEPT ![p] =
          assessThreat(network[p], allNetworks[p], network[p].history)]
  /\ pc' = [pc EXCEPT ![p] = "repeated"]
  /\ lastIndex' = lastIndexAfter(lastIndex, network[p].ssid)
  /\ UNCHANGED <<store, nReports, now, networks, deviceId, allNetworks, pos,
                 network, results, res, query, reply, stats>>

\* assessThreat called on a record of the set between two calls on the
\* target, its result dropped
AssessOther(p) ==
  /\ pc[p] \in {"assessed", "repeated"}
  /\ \E k \in 1..Len(allNetworks[p]) :
       lastIndex' = lastIndexAfter(lastIndex, allNetworks[p][k].ssid)
  /\ UNCHANGED <<store, nReports, now, pc, networks, deviceId, allNetworks, pos,
                 network, threatAssessment, results, res, query, reply, stats>>

NextEngine == Assess(1) \/ Reassess(1) \/ AssessOther(1)

SpecEngine == InitEngine /\ [][NextEngine]_vars

----------------------------------------------------------------------------
(* GET /threats, GET /networks, GET /stats *)

\* the assessment of every document against all of them, in the order read
RECURSIVE assessAll(_, _)
assessAll(docs, k) ==
  IF k > Len(docs) THEN <<>>
  ELSE <<assessThreat(docs[k], docs, docs[k].history)>> \o assessAll(docs, k + 1)

\* the lastIndex of every pattern after the documents from the k-th on are
\* assessed one after the other
RECURSIVE lastIndexAfterAll(_, _, _)
lastIndexAfterAll(li, docs, k) ==
  IF k > Len(docs) THEN li
  ELSE lastIndexAfterAll(lastIndexAfter(li, docs[k].ssid), docs, k + 1)

\* threatAssessment.threats.length > 0 || threatAssessment.harmScore > 0
\* faulty variant of isThreat: every assessment is listed
isThreatAlways(ta) == TRUE

isThreat(ta) == Len(ta.threats) > 0 \/ ta.harmScore > 0

\* faulty variant of sortByHarmScore: equal scores come out in reverse order
RECURSIVE sortByHarmScoreTiesReversed(_)
sortByHarmScoreTiesReversed(threats) ==
  IF threats = <<>> THEN <<>>
  ELSE LET rest == sortByHarmScoreTiesReversed(SubSeq(threats, 1, Len(threats) - 1))
           x == threats[Len(threats)]
           n == Cardinality({k \in 1..Len(rest) : rest[k].harmScore > x.harmScore})
       IN SubSeq(rest, 1, n) \o <<x>> \o SubSeq(rest, n + 1, Len(rest))

\* threats.sort((a, b) => b.harmScore - a.harmScore): Array.prototype.sort is
\* stable, an element goes behind the elements before it that are not lower
RECURSIVE sortByHarmScore(_)
sortByHarmScore(threats) ==
  IF threats = <<>> THEN <<>>
  ELSE LET rest == sortByHarmScore(SubSeq(threats, 1, Len(threats) - 1))
           x == threats[Len(threats)]
           n == Cardinality({k \in 1..Len(rest) : rest[k].harmScore >= x.harmScore})
       IN SubSeq(rest, 1, n) \o <<x>> \o SubSeq(rest, n + 1, Len(rest))

threatsResponse(docs) ==
  LET threats == sortByHarmScore(SelectSeq(assessAll(docs, 1), isThreat))
  IN [status |-> 200,
      success |-> TRUE,
      totalNetworks |-> Len(docs),
      threatsAnalyzed |-> Len(threats),
      summary |->
        [critical |-> CountRisk(threats, "critical"),
         high |-> CountRisk(threats, "high"),
         medium |-> CountRisk(threats, "medium"),
         low |-> CountRisk(threats, "low"),
         harmful |-> Cardinality({k \in 1..Len(threats) : threats[k].isHarmful})],
      threats |-> threats]

\* the request of GET /threats is received: Network.find({}) is called
ThreatsReceive(p) ==
  /\ pc[p] \in {"idle", "done"}
  /\ pc' = [pc EXCEPT ![p] = "threats"]
  /\ res' = [res EXCEPT ![p] = NoResponse]
  /\ UNCHANGED <<store, nReports, now, lastIndex, networks, deviceId,
                 allNetworks, pos, network, threatAssessment, results, query,
                 reply, stats>>

\* the store applies the Network.find({}) of GET /threats
StoreThreatsFind(p) ==
  /\ pc[p] = "threats"
  /\ Answers(p, [applied |-> TRUE, docs |-> store])
  /\ UNCHANGED store

\* faulty variant of GetThreats: a harmful record that is unknown is stored
\* suspicious
GetThreatsEscalating(p) ==
  /\ pc[p] = "threats"
  /\ reply[p] # NoReply
  /\ Finish(p, threatsResponse(reply[p].docs))
  /\ lastIndex' = lastIndexAfterAll(lastIndex, reply[p].docs, 1)
  /\ store' =
       [k \in 1..Len(store) |->
          IF autoSuspicious(store[k], assessThreat(store[k], store, store[k].history))
          THEN [store[k] EXCEPT !.status = "suspicious"]
          ELSE store[k]]
  /\ UNCHANGED <<nReports, now>>

\* router.get('/threats'): await Network.find({}) resolves, every document
\* is assessed against the documents read, the response
GetThreats(p) ==
  /\ pc[p] = "threats"
  /\ reply[p] # NoReply
  /\ Finish(p, threatsResponse(reply[p].docs))
  /\ lastIndex' = lastIndexAfterAll(lastIndex, reply[p].docs, 1)
  /\ UNCHANGED <<store, nReports, now>>

\* the find of a query rejects, whether the store has applied it or not: the
\* catch answers 500
QueryFails(p) ==
  /\ pc[p] \in {"threats", "networks"}
  /\ Finish(p, [status |-> 500])
  /\ UNCHANGED <<store, nReports, now, lastIndex>>

sAll == <<"a","l","l">>
sTrusted == <<"t","r","u","s","t","e","d">>
sSuspicious == <<"s","u","s","p","i","c","i","o","u","s">>
sNet == <<"n","e","t">>
sStatusUnknown == <<"u","n","k","n","o","w","n">>

\* the status a query string names
statusOf(chars) ==
  CASE chars = sTrusted -> "trusted"
    [] chars = sSuspicious -> "suspicious"
    [] chars = sStatusUnknown -> "unknown"
    [] OTHER -> "none"

\* { $regex: search, $options: 'i' } for a search string of plain characters
regexMatch(s, search) ==
  \E i \in 1..(Len(s) + 1) : LitAt(s, i, search)

\* the filter of GET /networks
networksFilter(doc, status, search) ==
  /\ (~Falsy(status) /\ status.v # sAll) => doc.status = statusOf(status.v)
  /\ ~Falsy(search) =>
       (regexMatch(doc.ssid, search.v) \/ regexMatch(doc.bssid, search.v))

\* .sort({ seenCount: order === 'desc' ? -1 : 1 }): an element goes behind
\* the elements before it that do not come after it
RECURSIVE sortBySeenCount(_, _)
sortBySeenCount(docs, order) ==
  IF docs = <<>> THEN <<>>
  ELSE LET rest == sortBySeenCount(SubSeq(docs, 1, Len(docs) - 1), order)
           x == docs[Len(docs)]
           n == Cardinality({k \in 1..Len(rest) :
                               IF order = "desc"
                               THEN rest[k].seenCount >= x.seenCount
                               ELSE rest[k].seenCount <= x.seenCount})
       IN SubSeq(rest, 1, n) \o <<x>> \o SubSeq(rest, n + 1, Len(rest))

\* .limit(parseInt(limit)): a limit of 0 is no limit, and a negative limit
\* asks for that many documents
limited(docs, limit) ==
  LET n == IF limit < 0 THEN -limit ELSE limit
  IN IF n = 0 \/ n >= Len(docs) THEN docs ELSE SubSeq(docs, 1, n)

\* the request of GET /networks is received for sortBy = seenCount: the
\* filter is built and Network.find(filter).sort().limit() is called
NetworksReceive(p, status, search, limit, order) ==
  /\ pc[p] \in {"idle", "done"}
  /\ pc' = [pc EXCEPT ![p] = "networks"]
  /\ res' = [res EXCEPT ![p] = NoResponse]
  /\ query' = [query EXCEPT ![p] = [status |-> status, search |-> search,
                                    limit |-> limit, order |-> order]]
  /\ UNCHANGED <<store, nReports, now, lastIndex, networks, deviceId,
                 allNetworks, pos, network, threatAssessment, results, reply,
                 stats>>

\* the store applies the find of GET /networks
StoreNetworksFind(p) ==
  /\ pc[p] = "networks"
  /\ LET Matches(doc) == networksFilter(doc, query[p].status, query[p].search)
     IN Answers(p, [applied |-> TRUE,
                    docs |-> limited(sortBySeenCount(SelectSeq(store, Matches),
                                                     query[p].order),
                                     query[p].limit)])
  /\ UNCHANGED store

\* router.get('/networks'): the find resolves, the response
GetNetworks(p) ==
  /\ pc[p] = "networks"
  /\ reply[p] # NoReply
  /\ Finish(p, [status |-> 200, success |-> TRUE, count |-> Len(reply[p].docs),
                networks |-> reply[p].docs])
  /\ UNCHANGED <<store, nReports, now, lastIndex>>

\* the $group of GET /stats
statusCount(docs, status) ==
  Cardinality({k \in 1..Len(docs) : docs[k].status = status})

\* 10 * 60 * 1000, in the unit of the clock
recentWindow == 600000

\* the request of GET /stats is received: Network.aggregate([...]) is called
StatsReceive(p) ==
  /\ pc[p] \in {"idle", "done"}
  /\ pc' = [pc EXCEPT ![p] = "aggregate"]
  /\ res' = [res EXCEPT ![p] = NoResponse]
  /\ UNCHANGED <<store, nReports, now, lastIndex, networks, deviceId,
                 allNetworks, pos, network, threatAssessment, results, query,
                 reply, stats>>

\* the store applies the aggregate: the counts by status
StoreAggregate(p) ==
  /\ pc[p] = "aggregate"
  /\ Answers(p, [applied |-> TRUE,
                 trusted |-> statusCount(store, "trusted"),
                 unknown |-> statusCount(store, "unknown"),
                 suspicious |-> statusCount(store, "suspicious")])
  /\ UNCHANGED store

\* const stats = await Network.aggregate([...]) resolves, and
\* countDocuments() is called
StatsAggregate(p) ==
  /\ pc[p] = "aggregate"
  /\ reply[p] # NoReply
  /\ pc' = [pc EXCEPT ![p] = "countTotal"]
  /\ stats' = [stats EXCEPT ![p] =
                 [total |-> 0, since |-> 0,
                  trusted |-> reply[p].trusted,
                  unknown |-> reply[p].unknown,
                  suspicious |-> reply[p].suspicious]]
  /\ reply' = [reply EXCEPT ![p] = NoReply]
  /\ UNCHANGED <<store, nReports, now, lastIndex, networks, deviceId,
                 allNetworks, pos, network, threatAssessment, results, res,
                 query>>

\* the store applies countDocuments()
StoreCountTotal(p) ==
  /\ pc[p] = "countTotal"
  /\ Answers(p, [applied |-> TRUE, n |-> Len(store)])
  /\ UNCHANGED store

\* const totalNetworks = await Network.countDocuments() resolves, and the
\* handler reads Date.now() for the filter of the second countDocuments it
\* calls
StatsCountTotal(p) ==
  /\ pc[p] = "countTotal"
  /\ reply[p] # NoReply
  /\ \E d \in ClockReads(now) :
       /\ stats' = [stats EXCEPT ![p].total = reply[p].n,
                                 ![p].since = d - recentWindow]
       /\ now' = d
  /\ pc' = [pc EXCEPT ![p] = "countRecent"]
  /\ reply' = [reply EXCEPT ![p] = NoReply]
  /\ UNCHANGED <<store, nReports, lastIndex, networks, deviceId, allNetworks,
                 pos, network, threatAssessment, results, res, query>>

\* the store applies countDocuments({ lastSeen: { $gte: ... } })
StoreCountRecent(p) ==
  /\ pc[p] = "countRecent"
  /\ Answers(p, [applied |-> TRUE,
                 n |-> Cardinality({k \in 1..Len(store) :
                                      store[k].lastSeen >= stats[p].since})])
  /\ UNCHANGED store

\* const recentlyActive = await Network.countDocuments({ lastSeen: ... })
\* resolves, then the response
StatsCountRecent(p) ==
  /\ pc[p] = "countRecent"
  /\ reply[p] # NoReply
  /\ Finish(p, [status |-> 200, success |-> TRUE,
                stats |-> [total |-> stats[p].total,
                           recentlyActive |-> reply[p].n,
                           trusted |-> stats[p].trusted,
                           unknown |-> stats[p].unknown,
                           suspicious |-> stats[p].suspicious]])
  /\ UNCHANGED <<store, nReports, now, lastIndex>>

\* a store call of GET /stats rejects, whether the store has applied it or
\* not: the catch answers 500
StatsFails(p) ==
  /\ pc[p] \in {"aggregate", "countTotal", "countRecent"}
  /\ Finish(p, [status |-> 500])
  /\ UNCHANGED <<store, nReports, now, lastIndex>>

\* router.get('/stats'): the aggregate by status, countDocuments() and
\* countDocuments({ lastSeen: { $gte: ... } }), each awaited
GetStats(p) ==
  \/ StatsReceive(p)
  \/ StoreAggregate(p)
  \/ StatsAggregate(p)
  \/ StoreCountTotal(p)
  \/ StatsCountTotal(p)
  \/ StoreCountRecent(p)
  \/ StatsCountRecent(p)
  \/ StatsFails(p)

\* documents in a store the queries are served on
MaxStored == 3

\* the bssid of the document at each position
storedBssid(k) == IF k = 1 THEN bssidAUpper ELSE crowdBssid(k)

\* the stores the queries are served on: up to MaxStored access points seen
\* 1, 2, ... times, with any of two names, Open or WPA2, unknown or trusted;
\* and the stores of channelLimit and channelLimit + 1 access points on one
\* channel
StoredChoices ==
  { [ssid |-> s, encType |-> e, status |-> st] :
      s \in {ssidNet, ssidFree}, e \in {sOpen, sWPA2}, st \in {"unknown", "trusted"} }

QueryStores ==
  { [k \in 1..n |-> Doc(k, c[k].ssid, storedBssid(k), c[k].encType, 6, k,
                        Flat(k, -60), c[k].status)] :
      n \in 0..MaxStored, c \in [1..MaxStored -> StoredChoices] }
    \cup {Crowd(channelLimit, 6), Crowd(channelLimit + 1, 6)}

QueryStatus == {Undef, Str(sAll), Str(sTrusted)}
QuerySearch == {Undef, Str(sNet)}
QueryLimit == {-2, 0, 1, 100}
QueryOrder == {"asc", "desc"}

InitQuery ==
  /\ store \in QueryStores
  /\ nReports = 0
  /\ pc = [p \in Procs |-> "idle"]
  /\ networks = [p \in Procs |-> <<>>]
  /\ deviceId = [p \in Procs |-> DefaultDeviceId]
  /\ allNetworks = [p \in Procs |-> <<>>]
  /\ pos = [p \in Procs |-> 0]
  /\ network = [p \in Procs |-> NoDoc]
  /\ threatAssessment = [p \in Procs |-> NULL]
  /\ results = [p \in Procs |-> NoResults]
  /\ res = [p \in Procs |-> NoResponse]
  /\ now = MaxNow
  /\ lastIndex = NoLastIndex
  /\ query = [p \in Procs |-> NoQuery]
  /\ reply = [p \in Procs |-> NoReply]
  /\ stats = [p \in Procs |-> NoStats]

NextQuery ==
  \/ ThreatsReceive(1)
  \/ StoreThreatsFind(1)
  \/ GetThreats(1)
  \/ \E status \in QueryStatus, search \in QuerySearch, limit \in QueryLimit,
        order \in QueryOrder :
       NetworksReceive(1, status, search, limit, order)
  \/ StoreNetworksFind(1)
  \/ GetNetworks(1)
  \/ GetStats(1)
  \/ QueryFails(1)

SpecQuery == InitQuery /\ [][NextQuery]_vars

\* GET /stats served by a second handler while batches of sensor reports
\* are served, the clock moving on between two reads
NextStats == NextSensor \/ GetStats(2)

SpecStats == InitTime /\ [][NextStats]_vars

\* the server with the router that assesses nothing mounted: POST /scan, and
\* GET /stats served by a second handler, the clock moving on between two
\* reads
NextPlain == PlainStep(1) \/ GetStats(2)

SpecPlain == InitTime /\ [][NextPlain]_vars

----------------------------------------------------------------------------
(* Steps of a behaviour, as the properties below tell them apart *)

\* handler p processes the element at pos[p] in this step
ItemStep(p) == InLoop(p) /\ pos'[p] # pos[p]

\* the store applies handler p's findOneAndUpdate in this step
UpsertStep(p) ==
  CanUpsert(p) /\ ~reply[p].applied /\ reply'[p].applied

\* handler p's findOneAndUpdate resolves in this step: the document it
\* returns is assessed
AssessStep(p) ==
  /\ CanUpsert(p)
  /\ reply[p].applied
  /\ reply'[p] = NoReply
  /\ results'[p].errors = results[p].errors

\* the store applies handler p's status write in this step
StatusWriteStep(p) ==
  pc[p] = "status" /\ ~reply[p].applied /\ reply'[p].applied

\* the step is one of a POST /scan handler or of the store serving it
ScanMoves == pc' # pc \/ pos' # pos \/ reply' # reply

SeenOf(st, key) ==
  IF FindByBssid(st, key) = 0 THEN 0 ELSE st[FindByBssid(st, key)].seenCount

\* the strings a and b differ in nothing but the case of their letters
SameLetters(a, b) == SmallLetters(a) = SmallLetters(b)

----------------------------------------------------------------------------
(* Properties *)

\* C1: every stored record's history has at most 20 entries (an observation
\* of a record whose history is full evicts the oldest entry).
C1_HistoryCapped ==
  \A k \in 1..Len(store) : Len(store[k].history) <= historySlice

\* C2: when a report is assessed, the record set passed to the Engine is the
\* store's content at that moment, with the report's own upsert and the
\* upserts of the earlier reports of the batch in it.
C2_AssessedAgainstStore ==
  [][\A p \in Procs : AssessStep(p) => allNetworks[p] = store]_vars

\* C3: a status manually set to trusted is not replaced by suspicious by a
\* POST /scan handler, under any interleaving of the PATCH request with the
\* handler's store calls.
C3_ManualNotOverridden ==
  [][\A k \in 1..Len(store) :
       (ScanMoves /\ store[k].status = "trusted")
         => store'[k].status = "trusted"]_vars

\* C4: a step of POST /scan changes a record's status only to suspicious,
\* only in the status write of a report assessed harmful, and only for the
\* record that report's upsert returned with status unknown; the upsert of a
\* report leaves the status of its record as it is and returns it, and a
\* report whose upsert returns the record trusted or suspicious asks for no
\* status write. With the requests served one after another the status the
\* upsert returned is the stored one.
C4_AutoOnlyFromUnknown ==
  [][ScanMoves =>
       /\ \A k \in 1..Len(store) :
            store'[k].status # store[k].status
              => /\ store'[k].status = "suspicious"
                 /\ \E p \in Procs :
                      /\ StatusWriteStep(p)
                      /\ network[p].id = store[k].id
                      /\ network[p].status = "unknown"
                      /\ assessThreat(network[p], allNetworks[p],
                                      network[p].history).isHarmful
       /\ \A p \in Procs :
            /\ UpsertStep(p) =>
                 LET before == FindByBssid(store, query[p].filter.bssid)
                 IN before # 0 =>
                      /\ store'[before].status = store[before].status
                      /\ reply'[p].doc.status = store[before].status
            /\ (AssessStep(p) /\ reply[p].doc.status # "unknown")
                 => pc'[p] = "loop"]_vars

\* C4 witness: a batch in progress has assessed a record harmful, and the
\* record, trusted before the batch, is still trusted.
C4_Witness ==
  \E p \in Procs :
    /\ pc[p] = "loop"
    /\ \E j \in 1..Len(results[p].threats), k \in 1..Len(store) :
         /\ results[p].threats[j].isHarmful
         /\ store[k].bssid = results[p].threats[j].bssid
         /\ store[k].status = "trusted"

\* C5: no step takes a record whose status is trusted or suspicious to
\* unknown.
C5_NeverBackToUnknown ==
  [][\A k \in 1..Len(store) :
       store[k].status \in {"trusted", "suspicious"}
         => store'[k].status # "unknown"]_vars

\* C6: a malformed element of the batch (no bssid, a bssid that is no
\* string, or null) is recorded in errors and the loop goes on with the next
\* element; it does not end the request.
C6_MalformedIsolated ==
  [][\A p \in Procs :
       (/\ InLoop(p)
        /\ ~CanUpsert(p)
        /\ pc'[p] # pc[p] \/ pos'[p] # pos[p])
         => /\ pc'[p] = "loop"
            /\ pos'[p] = pos[p] + 1
            /\ Len(results'[p].errors) = Len(results[p].errors) + 1]_vars

\* C7: a report whose bssid is absent or empty changes no record, adds
\* exactly one string to errors, is not counted in processed, created or
\* updated, and the loop goes on with the next report.
C7_MissingBssidRejected ==
  [][\A p \in Procs :
       (/\ ItemStep(p)
        /\ networkData(p) # Null
        /\ \/ networkData(p).bssid = Undef
           \/ networkData(p).bssid = Str(<<>>))
         => /\ store' = store
            /\ Len(results'[p].errors) = Len(results[p].errors) + 1
            /\ SubSeq(results'[p].errors, 1, Len(results[p].errors))
                 = results[p].errors
            /\ results'[p].processed = results[p].processed
            /\ results'[p].created = results[p].created
            /\ results'[p].updated = results[p].updated
            /\ results'[p].threats = results[p].threats
            /\ pc'[p] = "loop"
            /\ pos'[p] = pos[p] + 1]_vars

\* C7 witness: a report with an empty bssid was rejected and the report after
\* it was stored.
C7_Witness ==
  \E p \in Procs :
    /\ pc[p] = "loop"
    /\ pos[p] = 3
    /\ networks[p][1] # Null
    /\ networks[p][1].bssid = Str(<<>>)
    /\ Len(results[p].errors) = 1
    /\ results[p].processed = 1

\* C8: a request during which a store call failed ends with the server-error
\* response, never with the success response.
C8_StoreFailureIsServerError ==
  \A p \in Procs :
    res[p].status = 200
      => \A j \in 1..Len(res[p].errors) : res[p].errors[j].message # StoreError

\* C9: observationCount grows by exactly one with every accepted observation
\* of a bssid (1 on creation) and no other step changes it.
C9_SeenCountByOne ==
  [][/\ Len(store') >= Len(store)
     /\ \A p \in Procs :
          UpsertStep(p) =>
            LET key == CastBssid(networkData(p).bssid.v)
            IN /\ SeenOf(store', key) = SeenOf(store, key) + 1
               /\ \A k \in 1..Len(store') :
                    store'[k].bssid # key
                      => k <= Len(store) /\ store'[k].seenCount = store[k].seenCount
     /\ (~\E p \in Procs : UpsertStep(p))
          => /\ Len(store') = Len(store)
             /\ \A k \in 1..Len(store) : store'[k].seenCount = store[k].seenCount]_vars

\* C9 witness: one bssid reported twice in a batch into an empty store, then
\* patched: its count is 2.
C9_Witness ==
  \E k \in 1..Len(store) :
    /\ store[k].seenCount = 2
    /\ store[k].status = "trusted"

\* every stored bssid is uppercase and no two records carry the same one
UniqueUppercase ==
  /\ \A k \in 1..Len(store) : toUpperCase(store[k].bssid) = store[k].bssid
  /\ \A j, k \in 1..Len(store) : store[j].bssid = store[k].bssid => j = k

\* C10: in every store state there is exactly one record per
\* uppercase-normalized bssid: every stored bssid is uppercase, no two records
\* carry the same one, no step changes the bssid of an existing record, and
\* the upsert of a report whose bssid differs only in letter case from the
\* bssid of a record updates that record and creates none.
C10_OneRecordPerBssid ==
  [][/\ UniqueUppercase
     /\ UniqueUppercase'
     /\ \A k \in 1..Len(store) : store'[k].bssid = store[k].bssid
     /\ \A p \in Procs :
          UpsertStep(p) =>
            \A k \in 1..Len(store) :
              SameLetters(store[k].bssid, networkData(p).bssid.v)
                => /\ Len(store') = Len(store)
                   /\ store'[k].seenCount = store[k].seenCount + 1]_vars

\* handler p counts the report at pos[p] in this step
CountStep(p) ==
  /\ pc[p] \in {"loop", "status"}
  /\ results'[p].processed = results[p].processed + 1

\* the bssid under which the report at pos[p] is stored
KeyOf(p) == CastBssid(networkData(p).bssid.v)

\* the upsert of the report at pos[p] has been applied to the store
ReportStored(p) ==
  pc[p] = "status" \/ (CanUpsert(p) /\ reply[p].applied)

\* C11: the first accepted report for a bssid with no record creates a
\* record with observationCount 1, a history of exactly one entry holding
\* the reported rssi, and status unknown; the batch counts it as created, and
\* every later report for that bssid is counted as updated.
C11_FirstReportCreates ==
  [][\A p \in Procs :
       /\ (UpsertStep(p) /\ FindByBssid(store, KeyOf(p)) = 0)
            => /\ Len(store') = Len(store) + 1
               /\ store'[Len(store')].bssid = KeyOf(p)
               /\ store'[Len(store')].seenCount = 1
               /\ store'[Len(store')].history = <<[rssi |-> networkData(p).rssi]>>
               /\ store'[Len(store')].status = "unknown"
               /\ reply'[p].doc = store'[Len(store')]
       /\ (UpsertStep(p) /\ FindByBssid(store, KeyOf(p)) # 0)
            => /\ Len(store') = Len(store)
               /\ reply'[p].doc = store'[FindByBssid(store, KeyOf(p))]
               /\ reply'[p].doc.seenCount > 1
       /\ (AssessStep(p) /\ pc'[p] = "status") => network'[p] = reply[p].doc
       /\ (ReportStored(p) /\ pos'[p] # pos[p])
            => LET doc == IF pc[p] = "loop" THEN reply[p].doc ELSE network[p]
                   first == doc.seenCount = 1
               IN /\ results'[p].created =
                       results[p].created + (IF first THEN 1 ELSE 0)
                  /\ results'[p].updated =
                       results[p].updated + (IF first THEN 0 ELSE 1)]_vars

\* the record of the example of the automatic escalation, as the upsert of
\* the report into an empty store returns it
exampleBssid ==
  <<"A","A",":","B","B",":","C","C",":","1","1",":","2","2",":","3","3">>
exampleRecord ==
  [id |-> 1, ssid |-> ssidFree, bssid |-> exampleBssid, rssi |-> -40,
   channel |-> 6, encType |-> sOpen, seenCount |-> 1, status |-> "unknown",
   history |-> <<[rssi |-> -40]>>, deviceId |-> DefaultDeviceId,
   firstSeen |-> 0, lastSeen |-> 0]

\* the assessment of that record against the empty collection the handler
\* read
exampleAssessment ==
  assessThreat(exampleRecord, <<>>, exampleRecord.history)

\* C12: a report whose upsert returns the record with status unknown and
\* whose assessment is harmful is counted only after its status write, which
\* stores the record suspicious, has been applied: with no concurrent writer
\* the record is stored suspicious once the report is processed; the report
\* {Free_WiFi, AA:BB:CC:11:22:33, -40, 6, Open} into an empty store is
\* assessed harmScore 70, riskLevel critical.
C12_HarmfulUnknownEscalated ==
  [][/\ LET ta == exampleAssessment
        IN ta.harmScore = 70 /\ ta.riskLevel = "critical"
     /\ \A p \in Procs :
          /\ AssessStep(p) =>
               LET doc == reply[p].doc
                   ta == assessThreat(doc, allNetworks[p], doc.history)
               IN (ta.isHarmful /\ doc.status = "unknown")
                    => /\ pc'[p] = "status"
                       /\ network'[p] = doc
                       /\ results'[p] = results[p]
          /\ StatusWriteStep(p) =>
               \E k \in 1..Len(store) :
                 /\ store[k].id = network[p].id
                 /\ store'[k].status = "suspicious"
          /\ (CountStep(p) /\ pc[p] = "status") => reply[p].applied]_vars

\* C12 witness: the Free_WiFi report into an empty store has been processed:
\* the threat is listed with harmScore 70, critical, and the record created by
\* the report is stored suspicious.
C12_Witness ==
  \E p \in Procs :
    /\ pc[p] = "loop"
    /\ pos[p] = 2
    /\ results[p].created = 1
    /\ Len(results[p].threats) = 1
    /\ results[p].threats[1].harmScore = 70
    /\ results[p].threats[1].riskLevel = "critical"
    /\ Len(store) = 1
    /\ store[1].ssid = ssidFree
    /\ store[1].status = "suspicious"

\* the findings of an assessment that carry one of these types
FindingsOf(ta, types) ==
  {k \in 1..Len(ta.threats) : ta.threats[k].type \in types}

\* the order of the encryption types: Open < WEP < {WPA, WPA2, WPA3}; any
\* other value has no rank
Rank(encType) ==
  CASE encType = sOpen -> 0
    [] encType = sWEP -> 1
    [] encType \in {sWPA, sWPA2, sWPA3} -> 2
    [] OTHER -> -1

\* record j of the set carries the target's ssid under another bssid
IsSibling(t, S, j) == S[j].ssid = t.ssid /\ S[j].bssid # t.bssid

\* C13: the evil-twin detector fires iff the record set holds another record
\* with the target's ssid and a different bssid, and the target is Open or
\* one such sibling's encryption is strictly stronger than the target's under
\* Open < WEP < {WPA, WPA2, WPA3}; it never fires for a target whose ssid no
\* other bssid carries, and of a WPA2/Open pair only the Open record fires.
C13_EvilTwinIff ==
  \A p \in Procs :
    pc[p] = "assessed" =>
      LET t == network[p]
          S == allNetworks[p]
          sibs == {j \in 1..Len(S) : IsSibling(t, S, j)}
          fires == FindingsOf(threatAssessment[p], {"evil_twin"}) # {}
      IN /\ fires <=>
              /\ sibs # {}
              /\ \/ t.encType = sOpen
                 \/ \E j \in sibs :
                      Rank(t.encType) >= 0 /\ Rank(S[j].encType) > Rank(t.encType)
         /\ sibs = {} => ~fires
         /\ t.encType = sWPA2 => ~fires
         /\ Cardinality(FindingsOf(threatAssessment[p], {"evil_twin"})) <= 1

\* C13 witness: a WEP target assessed against a set whose only record with
\* its ssid and another bssid is WPA3: the finding is there.
C13_Witness ==
  \E p \in Procs :
    /\ pc[p] = "assessed"
    /\ network[p].encType = sWEP
    /\ Len(allNetworks[p]) = 2
    /\ allNetworks[p][1].bssid = network[p].bssid
    /\ IsSibling(network[p], allNetworks[p], 2)
    /\ allNetworks[p][2].encType = sWPA3
    /\ FindingsOf(threatAssessment[p], {"evil_twin"}) # {}

\* C14: riskLevel is critical iff harmScore >= 70, high iff 40 <= harmScore
\* < 70, medium iff 20 <= harmScore < 40, low iff harmScore < 20; isHarmful
\* is true iff harmScore >= 40.
C14_RiskLevels ==
  \A p \in Procs :
    pc[p] = "assessed" =>
      LET ta == threatAssessment[p]
      IN /\ ta.riskLevel \in {"critical", "high", "medium", "low"}
         /\ ta.riskLevel = "critical" <=> ta.harmScore >= 70
         /\ ta.riskLevel = "high" <=> (40 <= ta.harmScore /\ ta.harmScore < 70)
         /\ ta.riskLevel = "medium" <=> (20 <= ta.harmScore /\ ta.harmScore < 40)
         /\ ta.riskLevel = "low" <=> ta.harmScore < 20
         /\ ta.isHarmful <=> ta.harmScore >= 40

\* C14 witness: an assessment whose score is exactly 40 is high and harmful.
C14_Witness ==
  \E p \in Procs :
    /\ pc[p] = "assessed"
    /\ threatAssessment[p].harmScore = 40
    /\ threatAssessment[p].riskLevel = "high"
    /\ threatAssessment[p].isHarmful

\* the six detectors in their order: what each returns, and its points
DetectorFindings(t, S) ==
  <<checkSuspiciousSSID(t.ssid), detectEvilTwin(t, S), checkOpenNetwork(t),
    detectSignalAnomalies(t, t.history), detectChannelThreats(t, S),
    analyzeMACAddress(t.bssid)>>
DetectorPoints == <<30, 50, 25, 35, 20, 15>>

RECURSIVE SumOver(_, _)
SumOver(f, I) ==
  IF I = {} THEN 0
  ELSE LET i == CHOOSE x \in I : TRUE IN f[i] + SumOver(f, I \ {i})

\* C15: harmScore is the sum of the fixed points of exactly the detectors
\* that produced a finding (30, 50, 25, 35, 20, 15), with one finding per
\* triggered detector in detector order; no detector lowers the score, and a
\* record that is Open and an evil twin receives both 50 and 25.
C15_ScoreIsSumOfPoints ==
  \A p \in Procs :
    pc[p] = "assessed" =>
      LET ta == threatAssessment[p]
          found == DetectorFindings(network[p], allNetworks[p])
          triggered == {i \in 1..6 : found[i] # NULL}
          IsFinding(x) == x # NULL
      IN /\ ta.harmScore = SumOver(DetectorPoints, triggered)
         /\ ta.threats = SelectSeq(found, IsFinding)
         /\ Len(ta.threats) = Cardinality(triggered)
         /\ \A T \in SUBSET triggered :
              SumOver(DetectorPoints, T) <= ta.harmScore
         /\ ({2, 3} \subseteq triggered) => ta.harmScore >= 50 + 25

\* C15 witness: an Open target with a suspicious ssid and a sibling: the
\* findings start suspicious_ssid, evil_twin, open_network and the score is
\* above 100.
C15_Witness ==
  \E p \in Procs :
    /\ pc[p] = "assessed"
    /\ Len(threatAssessment[p].threats) >= 3
    /\ threatAssessment[p].threats[1].type = "suspicious_ssid"
    /\ threatAssessment[p].threats[2].type = "evil_twin"
    /\ threatAssessment[p].threats[3].type = "open_network"
    /\ threatAssessment[p].harmScore > 100

\* the points of the findings of an assessment other than detector 4's
OtherPoints(ta) ==
  LET pts == [k \in 1..Len(ta.threats) |->
                CASE ta.threats[k].type = "suspicious_ssid" -> 30
                  [] ta.threats[k].type = "evil_twin" -> 50
                  [] ta.threats[k].type = "open_network" -> 25
                  [] ta.threats[k].type = "channel_congestion" -> 20
                  [] ta.threats[k].type = "suspicious_mac" -> 15
                  [] OTHER -> 0]
  IN SumOver(pts, 1..Len(ta.threats))

\* the rssi variation over the last ten entries of a history is above d
VariesMoreThan(h, d) ==
  \E j, k \in 1..Len(h) :
    /\ j > Len(h) - 10
    /\ k > Len(h) - 10
    /\ h[j].rssi - h[k].rssi > d

\* C17: the signal-anomaly detector yields no finding when the history has
\* fewer than 5 entries (even if observationCount > 100); with at least 5 it
\* yields exactly one finding worth 35 points iff max(rssi) - min(rssi) over
\* the last 10 entries is > 20 or observationCount > 100, and when both hold
\* the one finding is the variation finding.
C17_SignalAnomaly ==
  \A p \in Procs :
    pc[p] = "assessed" =>
      LET t == network[p]
          ta == threatAssessment[p]
          variation == FindingsOf(ta, {"signal_anomaly"})
          count == FindingsOf(ta, {"high_frequency"})
          varies == VariesMoreThan(t.history, 20)
          often == t.seenCount > 100
      IN /\ Len(t.history) < 5 => (variation = {} /\ count = {})
         /\ Len(t.history) >= 5 =>
              /\ Cardinality(variation \cup count) = 1 <=> (varies \/ often)
              /\ Cardinality(variation \cup count) <= 1
              /\ varies => (variation # {} /\ count = {})
              /\ (often /\ ~varies) => count # {}
         /\ ta.harmScore =
              OtherPoints(ta) + (IF variation \cup count # {} THEN 35 ELSE 0)

\* C17 witness: a target seen more than 100 times whose last entries vary by
\* more than 20: exactly one finding of detector 4, the variation finding.
C17_Witness ==
  \E p \in Procs :
    /\ pc[p] = "assessed"
    /\ network[p].seenCount > 100
    /\ Len(network[p].history) >= 5
    /\ VariesMoreThan(network[p].history, 20)
    /\ Cardinality(FindingsOf(threatAssessment[p], {"signal_anomaly"})) = 1
    /\ FindingsOf(threatAssessment[p], {"high_frequency"}) = {}

\* res[p] is a response of GET /threats
IsThreatsResponse(p) == res[p].status = 200 /\ "threatsAnalyzed" \in DOMAIN res[p]

\* the records of a store on the channel of record k, record k included
OnChannelOf(st, k) == {j \in 1..Len(st) : st[j].channel = st[k].channel}

\* C16: the channel-congestion finding fires for a target iff more than 15
\* records of the assessed set are on the target's channel, the target
\* included: with 16 stored records on one channel GET /threats reports the
\* finding for all 16, with 15 for none.
C16_CongestionAbove15 ==
  \A p \in Procs :
    IsThreatsResponse(p) =>
      \A k \in 1..Len(store) :
        (\E i \in 1..Len(res[p].threats) :
           /\ res[p].threats[i].networkId = store[k].id
           /\ FindingsOf(res[p].threats[i], {"channel_congestion"}) # {})
          <=> Cardinality(OnChannelOf(store, k)) > 15

\* C16 witness: sixteen stored records on one channel, and GET /threats
\* lists sixteen assessments, each with the congestion finding.
C16_Witness ==
  \E p \in Procs :
    /\ IsThreatsResponse(p)
    /\ Len(store) = 16
    /\ \A k \in 1..Len(store) : store[k].channel = 6
    /\ Len(res[p].threats) = 16
    /\ \A i \in 1..16 :
         FindingsOf(res[p].threats[i], {"channel_congestion"}) # {}

\* C18: GET /threats returns exactly the stored records whose assessment
\* against the full loaded set has harmScore > 0 or at least one finding,
\* ordered by non-increasing harmScore, records of equal harmScore in the
\* order in which they were read from the store.
C18_ThreatsSortedStable ==
  \A p \in Procs :
    IsThreatsResponse(p) =>
      LET T == res[p].threats
          A(k) == assessThreat(store[k], store, store[k].history)
          listed == {k \in 1..Len(store) : A(k).harmScore > 0 \/ Len(A(k).threats) > 0}
      IN /\ Len(T) = Cardinality(listed)
         /\ \A k \in listed : \E i \in 1..Len(T) : T[i] = A(k)
         /\ \A i \in 1..Len(T) : \E k \in listed : T[i] = A(k)
         /\ \A i, j \in 1..Len(T) :
              i < j =>
                /\ T[i].harmScore >= T[j].harmScore
                /\ T[i].harmScore = T[j].harmScore
                     => T[i].networkId < T[j].networkId

\* C18 witness: three stored records, the second and the third with one
\* score and the first with a lower one: the second is listed first, then
\* the third, then the first.
C18_Witness ==
  \E p \in Procs :
    /\ IsThreatsResponse(p)
    /\ Len(store) = 3
    /\ Len(res[p].threats) = 3
    /\ res[p].threats[1].networkId = 2
    /\ res[p].threats[2].networkId = 3
    /\ res[p].threats[3].networkId = 1
    /\ res[p].threats[1].harmScore = res[p].threats[2].harmScore
    /\ res[p].threats[2].harmScore > res[p].threats[3].harmScore

\* C19: GET /threats, GET /networks and GET /stats leave every field of
\* every stored record unchanged, status included, even when the recomputed
\* assessment of a record with status unknown is harmful: the automatic
\* unknown -> suspicious transition is not theirs.
C19_QueriesReadOnly ==
  [][store' = store]_vars

\* C19 witness: GET /threats has listed a harmful assessment of a record
\* whose stored status is unknown.
C19_Witness ==
  \E p \in Procs :
    /\ IsThreatsResponse(p)
    /\ \E i \in 1..Len(res[p].threats), k \in 1..Len(store) :
         /\ res[p].threats[i].networkId = store[k].id
         /\ res[p].threats[i].isHarmful
         /\ store[k].status = "unknown"

\* C20: a POST /scan request rejected for its authentication header (401)
\* or for a networks field that is absent or no list (400) is rejected as a
\* whole before any processing: no record is created or modified, the engine
\* is not run and the handler is over.
C20_RejectedBeforeProcessing ==
  [][\A p \in Procs :
       (res'[p].status \in {400, 401} /\ (pc[p] # "done" \/ res'[p] # res[p]))
         => /\ pc[p] \in {"idle", "done"}
            /\ pc'[p] = "done"
            /\ store' = store
            /\ networks'[p] = <<>>
            /\ allNetworks'[p] = <<>>
            /\ threatAssessment'[p] = NULL
            /\ results'[p] = NoResults]_vars

\* C20 witness: after a batch that stored a record, a request is rejected
\* for its authentication header and the record is as the batch left it.
C20_Witness ==
  \E p \in Procs :
    /\ res[p].status = 401
    /\ pc[p] = "done"
    /\ nReports = 1
    /\ Len(store) = 1
    /\ store[1].seenCount = 1

\* C21: in every store state each record's encryptionType is one of Open,
\* WEP, WPA, WPA2, WPA3, Unknown: a report with no encType is stored as
\* Unknown, and a report carrying any other value (the "WPA/WPA2" of the
\* sensor firmware) never leaves a stored record outside that set.
C21_EncTypeInEnum ==
  \A k \in 1..Len(store) : store[k].encType \in EncTypes

\* the batch of handler p has been answered with success, and none of its
\* reports failed on a store that was out of reach
Answered(p) ==
  /\ pc[p] = "done"
  /\ res[p].status = 200
  /\ \A j \in 1..Len(res[p].errors) : res[p].errors[j].message # StoreError

\* the call before gave.
C23_EngineDeterministic ==
  [][ /\ store' = store
      /\ network' = network
      /\ allNetworks' = allNetworks
      /\ lastIndex' = lastIndex
      /\ \A p \in Procs :
           pc[p] \in {"assessed", "repeated"} /\ pc'[p] = "repeated" =>
             threatAssessment'[p] = threatAssessment[p] ]_vars

\* C23 witness: a target whose ssid matches a pattern has been assessed more
\* than once against a set with a sibling, and carries both findings
C23_Witness ==
  /\ pc[1] = "repeated"
  /\ network[1].ssid = ssidFree
  /\ FindingsOf(threatAssessment[1], {"suspicious_ssid"}) # {}
  /\ FindingsOf(threatAssessment[1], {"evil_twin"}) # {}
  /\ lastIndex = NoLastIndex

\* handler p has accepted a request and not answered it
Running(p) == pc[p] \in {"find", "loop", "status"}

\* C24: every accepted intake request ends with one response: while it runs
\* no response is sent, the reports before pos are the ones handled, each
\* once (counted as processed or as an error), each step handles the report
\* at pos and moves to the next one, the success response is sent when the
\* list is through, and a running request always comes to its response.
C24_IntakeTerminates ==
  /\ [](\A p \in Procs :
          /\ Running(p) => res[p] = NoResponse
          /\ pc[p] = "done" => res[p] # NoResponse
          /\ pc[p] \in {"loop", "status"} =>
               /\ pos[p] \in 1..(Len(networks[p]) + 1)
               /\ results[p].processed + Len(results[p].errors) = pos[p] - 1
          /\ pc[p] = "status" => pos[p] <= Len(networks[p]))
  /\ [][\A p \in Procs :
          /\ pc[p] = "loop" /\ pc'[p] = "loop" => pos'[p] \in {pos[p], pos[p] + 1}
          /\ pc[p] = "loop" /\ pc'[p] = "status" => pos'[p] = pos[p]
          /\ pc[p] = "status" /\ pc'[p] # "status" =>
               pc'[p] = "loop" /\ pos'[p] = pos[p] + 1
          /\ Running(p) /\ pc'[p] = "done" /\ res'[p].status = 200 =>
               pc[p] = "loop" /\ pos[p] = Len(networks[p]) + 1
          /\ Running(p) => networks'[p] = networks[p] \/ pc'[p] = "done"]_vars
  /\ \A p \in {1} : Running(p) ~> pc[p] = "done"

\* C24 witness: a request whose list mixed reports that were stored and
\* reports that failed has been answered
C24_Witness ==
  /\ pc[1] = "done"
  /\ res[1].status = 200
  /\ res[1].processed >= 1
  /\ Len(res[1].errors) >= 2

\* the findings of detector 4, whichever of its two conditions fired
Detector4Types == {"signal_anomaly", "high_frequency"}

\* the tips the findings call for when every finding of detector 4 calls for
\* the signal-anomaly tip
RECURSIVE TipsPerDetector(_)
TipsPerDetector(threats) ==
  IF threats = <<>> THEN <<>>
  ELSE (IF Head(threats).type \in Detector4Types THEN TipFor("signal_anomaly")
        ELSE TipFor(Head(threats).type))
       \o TipsPerDetector(Tail(threats))

\* C25: the specific list of the recommendation is never empty; it holds one
\* tip for each finding of type evil_twin, open_network, suspicious_ssid or
\* signal_anomaly, in finding order, a finding of detector 4 under either
\* of its conditions giving the signal-anomaly tip; and it is the single
\* fallback tip iff no finding calls for a tip.
C25_SpecificTips ==
  \A p \in Procs :
    pc[p] = "assessed" =>
      LET ta == threatAssessment[p]
          tips == TipsPerDetector(ta.threats)
      IN /\ ta.recommendation.specific # <<>>
         /\ ta.recommendation.specific =
              IF tips = <<>> THEN <<"Follow standard WiFi security practices">>
              ELSE tips

\* what every step keeps of the records there are: none is deleted, and
\* each keeps its place, its bssid and its firstSeen; a step of the intake
\* changes a status only from unknown to suspicious
RecordsKept ==
  /\ Len(store') >= Len(store)
  /\ \A k \in 1..Len(store) :
       /\ store'[k].id = store[k].id
       /\ store'[k].bssid = store[k].bssid
       /\ store'[k].firstSeen = store[k].firstSeen
       /\ ScanMoves /\ store'[k].status # store[k].status =>
            store[k].status = "unknown" /\ store'[k].status = "suspicious"

\* C26: an intake update leaves firstSeen and bssid of the record unchanged,
\* and its status too unless the escalation from unknown to suspicious
\* fires; it sets lastSeen to the time of the observation, so that lastSeen
\* >= firstSeen holds for every record in every state; no record is ever
\* deleted.
C26_LastSeenNotBeforeFirstSeen ==
  /\ [](\A k \in 1..Len(store) : store[k].lastSeen >= store[k].firstSeen)
  /\ [][RecordsKept]_vars

\* the assessment of the report handler p counts in this step: the one kept
\* over the status write, or the one of the document the upsert returned
AssessmentCounted(p) ==
  IF pc[p] = "status" THEN threatAssessment[p]
  ELSE assessThreat(reply[p].doc, allNetworks[p], reply[p].doc.history)

\* C27: in every success response of the intake processed = created +
\* updated, processed + length(errors) = number of reports of the batch, and
\* threats holds, in report order, one entry for each processed report whose
\* assessment has findings and none for any other, so that threatsDetected
\* <= processed.
C27_ResponseCounters ==
  /\ [](\A p \in Procs :
          /\ pc[p] \in {"loop", "status"} =>
               /\ results[p].processed = results[p].created + results[p].updated
               /\ Len(results[p].threats) <= results[p].processed
          /\ pc[p] = "done" /\ res[p].status = 200 =>
               /\ res[p].processed = res[p].created + res[p].updated
               /\ res[p].securitySummary.threatsDetected = Len(res[p].threats)
               /\ res[p].securitySummary.threatsDetected <= res[p].processed
               /\ \A k \in 1..Len(res[p].threats) :
                    res[p].threats[k].threats # <<>>)
  /\ [][\A p \in Procs :
          /\ CountStep(p) =>
               LET ta == AssessmentCounted(p)
                   old == results[p].threats
                   new == results'[p].threats
               IN IF ta.threats = <<>> THEN new = old
                  ELSE /\ Len(new) = Len(old) + 1
                       /\ SubSeq(new, 1, Len(old)) = old
                       /\ new[Len(new)].bssid = KeyOf(p)
                       /\ new[Len(new)].threats = ta.threats
                       /\ new[Len(new)].harmScore = ta.harmScore
          /\ pc[p] \in {"loop", "status"} /\ pc'[p] = "loop" /\ ~CountStep(p) =>
               results'[p].threats = results[p].threats
          /\ pc[p] = "loop" /\ pc'[p] = "status" => results'[p] = results[p]
          /\ Running(p) /\ pc'[p] = "done" /\ res'[p].status = 200 =>
               /\ res'[p].processed + Len(res'[p].errors) = Len(networks[p])
               /\ res'[p].threats = results[p].threats
               /\ res'[p].processed = results[p].processed]_vars

\* C27 witness: a success response for a batch of three: one report failed,
\* one was processed with findings and one without
C27_Witness ==
  /\ pc[1] = "done"
  /\ res[1].status = 200
  /\ res[1].processed = 2
  /\ Len(res[1].errors) = 1
  /\ Len(res[1].threats) = 1

\* the upsert of the report at pos[p] has been applied to the store and the
\* report is not counted yet
UpsertApplied(p) == pc[p] = "status" /\ network[p] # NoDoc

\* C28: every report of a batch that changed the store is reported as
\* processed: a report is put into errors, and so left out of processed,
\* created and updated, only while its upsert has not been applied.
C28_StoredMeansProcessed ==
  [][\A p \in Procs :
       Len(results'[p].errors) > Len(results[p].errors) /\ pc'[p] # "done" =>
         /\ ~UpsertApplied(p)
         /\ store' = store]_vars

\* C29: the placeholder ssid 'Hidden Network' is left out by the
\* suspicious-SSID detector only: a record with that ssid never gets a
\* suspicious_ssid finding, and one with encryption Open gets an evil_twin
\* finding, and with it a harmScore >= 75 and the riskLevel critical,
\* whenever the record set holds another record of another bssid whose ssid
\* is 'Hidden Network' too.
C29_HiddenNetworkEvilTwin ==
  \A p \in Procs :
    pc[p] = "assessed" /\ network[p].ssid = sHiddenNetwork =>
      LET ta == threatAssessment[p]
          S == allNetworks[p]
          other == \E j \in 1..Len(S) :
                     S[j].ssid = sHiddenNetwork /\ S[j].bssid # network[p].bssid
      IN /\ FindingsOf(ta, {"suspicious_ssid"}) = {}
         /\ network[p].encType = sOpen /\ other =>
              /\ FindingsOf(ta, {"evil_twin"}) # {}
              /\ FindingsOf(ta, {"open_network"}) # {}
              /\ ta.harmScore >= 75
              /\ ta.riskLevel = "critical"
              /\ ta.isHarmful

\* C29 witness: an Open record without ssid assessed against a set holding
\* another record without ssid: evil_twin and open_network, 75 points
C29_Witness ==
  /\ pc[1] = "assessed"
  /\ network[1].ssid = sHiddenNetwork
  /\ network[1].encType = sOpen
  /\ \E j \in 1..Len(allNetworks[1]) :
       /\ allNetworks[1][j].ssid = sHiddenNetwork
       /\ allNetworks[1][j].bssid # network[1].bssid
  /\ FindingsOf(threatAssessment[1], {"evil_twin"}) # {}
  /\ threatAssessment[1].harmScore = 75

\* the only finding of the assessment is the one of analyzeMACAddress
OnlyMacFinding(ta) ==
  Len(ta.threats) = 1 /\ ta.threats[1].type = "suspicious_mac"

\* C30: in every assessment GET /threats returns isHarmful is true iff the
\* riskLevel is high or critical, and the harmScore is at least 15; in its
\* summary harmful = critical + high, critical + high + medium + low is the
\* number of threats returned, and low counts exactly the records whose only
\* finding is the MAC heuristic.
C30_ThreatsSummary ==
  \A p \in Procs :
    IsThreatsResponse(p) =>
      LET T == res[p].threats
          sm == res[p].summary
      IN /\ \A i \in 1..Len(T) :
              /\ T[i].isHarmful <=> T[i].riskLevel \in {"high", "critical"}
              /\ T[i].harmScore >= 15
              /\ T[i].riskLevel = "low" <=> OnlyMacFinding(T[i])
         /\ sm.harmful = sm.critical + sm.high
         /\ sm.critical + sm.high + sm.medium + sm.low = Len(T)
         /\ res[p].threatsAnalyzed = Len(T)
         /\ sm.low = Cardinality({i \in 1..Len(T) : OnlyMacFinding(T[i])})

\* C30 witness: a response that lists a record of each kind: one with the
\* MAC finding only, one harmful, and one stored record is not listed
C30_Witness ==
  \E p \in Procs :
    /\ IsThreatsResponse(p)
    /\ res[p].summary.low >= 1
    /\ res[p].summary.harmful >= 1
    /\ res[p].totalNetworks > res[p].threatsAnalyzed

====
